---------------------------- MODULE Spec2Model ----------------------------
(***************************************************************************)
(* A model of the front end of the jam compiler: the table-driven lexer    *)
(* (compiler/jam/lexer.py), the method-body builder of the parser          *)
(* (compiler/jam/parser.py) and the lekvar verifier                        *)
(* (compiler/lekvar/lekvar.py, compiler/lekvar/util.py).                   *)
(*                                                                         *)
(* Each subsystem has its own specification over its own variables; the    *)
(* variables of the other subsystems stay at their initial value.          *)
(***************************************************************************)
EXTENDS Integers, Sequences, FiniteSets, TLC

VARIABLES
    \* ---- Lexer (lexer.py, class Lexer) ----
    source,      \* the characters of the input stream, one string per character
    position,    \* Lexer.position
    current,     \* Lexer.current ("" once the stream is exhausted)
    tokens,      \* the tokens returned by the lex() calls so far
    lexState,    \* "run", "eoi" (lex returned None) or "error" (lex raised)
    \* ---- Verifier (lekvar.py) ----
    heap,        \* the IR objects: heap[n] is the object with identity n (0 is None)
    builtins,    \* State.builtins
    scope,       \* State.scope
    softStack,   \* State.soft_scope_stack (None exactly when State.scope is None)
    stack,       \* the pending steps of the running verify()/resolveCall() calls
    retval,      \* the value the last completed resolveCall() returned
    raised,      \* the last error raised: <<>> or <<kind, message>>
    outcome,     \* "run", "ok" (verify returned) or the kind of the error it raised
    program,     \* the program given to verify(), as a term
    \* ---- resolveReference (lekvar.py, util.py), one turn of its loop at a time ----
    rReference,  \* reference
    rExclude,    \* exclude (None for none)
    rScope,      \* the local scope of the loop
    rFound,      \* found
    rVisited,    \* the <<scope, context>> pairs the loop has looked at, in order
    rResult,     \* what resolveReference returned or raised
    resState,    \* "walk", "filter" or "done"
    \* ---- Parser.parseMethodBody (parser.py) ----
    pArguments,      \* arguments
    pDefaultValues,  \* default_values (None where an argument has no default)
    pReturnType,     \* return_type
    pInstructions,   \* instructions
    pOverloads,      \* overloads
    pIndex,          \* the count of enumerate(reversed(default_values))
    pInDefaults,     \* in_defaults
    pMethod,         \* the Method returned
    parseState,      \* "body", "defaults", "method", "done" or "SyntaxError"
    \* ---- operations of the IR called one at a time (lekvar.py) ----
    added,           \* for each Method, the overloads given to it so far, in order
    opState,         \* "idle", "run" or the kind of the error the last call raised
    snapshot,        \* <<>>, or the IR, the State and the last error at a second module.verify()
    compared,        \* <<>>, or the two types self and other of a checkCompatibility call
    compatible,      \* <<>>, or the answer of that call
    \* ---- functions of the Parser called one at a time (parser.py) ----
    pInput,          \* the tokens the lexer gives from the start, up to the end of the stream
    pTokens,         \* the tokens the lexer has still to give, Parser.tokens included
    pBuffered,       \* len(Parser.tokens): how many of them lookAhead has asked the lexer for
    pValues,         \* values
    pOperations,     \* operations
    pValue,          \* <<>>, or what the function returned
    pChildren,       \* the dict children of parseModule: <<name, object>> pairs in key order
    pDeclared,       \* the declarations handed to addChild so far, as they were when handed
    callState        \* "idle", the function to call, "done" or the kind of the error raised

lexVars == <<source, position, current, tokens, lexState>>
verVars == <<heap, builtins, scope, softStack, stack, retval, raised, outcome, program>>

resVars == <<rReference, rExclude, rScope, rFound, rVisited, rResult, resState>>
parVars == <<pArguments, pDefaultValues, pReturnType, pInstructions, pOverloads, pIndex,
             pInDefaults, pMethod, parseState>>

opVars == <<added, opState, snapshot, compared, compatible>>

callVars == <<pInput, pTokens, pBuffered, pValues, pOperations, pValue, pChildren, pDeclared,
              callState>>

vars == <<lexVars, verVars, resVars, parVars, opVars, callVars>>

-----------------------------------------------------------------------------
(***************************************************************************)
(* Generic helpers                                                         *)
(***************************************************************************)

\* All sequences over S of length 0..n
SeqsUpTo(S, n) == UNION {[1..k -> S] : k \in 0..n}

\* Python's seq[a:b] for 0 <= a, with 0-based half-open indices
Slice(seq, a, b) ==
    IF b <= a THEN <<>> ELSE SubSeq(seq, a + 1, IF b > Len(seq) THEN Len(seq) ELSE b)

RECURSIVE Flatten(_)
Flatten(seqs) == IF seqs = <<>> THEN <<>> ELSE Head(seqs) \o Flatten(Tail(seqs))

-----------------------------------------------------------------------------
(***************************************************************************)
(* LEXER  (compiler/jam/lexer.py)                                          *)
(***************************************************************************)

\* Bound: longest input the lexer is run on
MaxSourceLen == 3

\* Characters inputs are drawn from.  They reach every sub-automaton: blank,
\* newline, comment, both string forms with the escape, the keyword "as" and
\* its prefix/extension, integers with "_", the operators & && < <= = ==.
Alphabet == {" ", "\n", "#", "bq", "\"", "\\", "a", "s", "1", "_", "&", "<", "="}

WHITESPACE == {" ", "\t"}
NEWLINE_CHAR == "\n"
COMMENT_CHAR == "#"
FORMAT_STRING_CHAR == "\""
FORMAT_STRING_ESCAPE_CHAR == "\\"
\* the backquote, which a TLA+ string cannot hold, is written "bq"
WYSIWYG_STRING_CHAR == "bq"

DIRECT_MAP == <<
    << <<"+">>, "addition" >>,
    << <<"-">>, "subtraction" >>,
    << <<"*">>, "multiplication" >>,
    << <<"/", "/">>, "integer_division" >>,
    << <<"/">>, "division" >>,
    << <<"%">>, "mod" >>,
    << <<"=", "=">>, "equality" >>,
    << <<"!", "=">>, "inequality" >>,
    << <<"<", "=">>, "smaller_than_or_equal_to" >>,
    << <<"<">>, "smaller_than" >>,
    << <<">", "=">>, "greater_than_or_equal_to" >>,
    << <<">">>, "greater_than" >>,
    << <<"!">>, "logical_negation" >>,
    << <<"&", "&">>, "logical_and" >>,
    << <<"|", "|">>, "logical_or" >>,
    << <<"=", ">">>, "function" >>,
    << <<"(">>, "group_start" >>,
    << <<")">>, "group_end" >>,
    << <<":">>, "typeof" >>,
    << <<"-", ">">>, "returns" >>,
    << <<",">>, "comma" >>,
    << <<"=">>, "assign" >>,
    << <<".">>, "dot" >>,
    << <<"c", "o", "n", "s", "t">>, "const_kwd" >>,
    << <<"r", "e", "f">>, "ref_kwd" >>,
    << <<"d", "e", "f">>, "def_kwd" >>,
    << <<"e", "n", "d">>, "end_kwd" >>,
    << <<"r", "e", "t", "u", "r", "n">>, "return_kwd" >>,
    << <<"c", "l", "a", "s", "s">>, "class_kwd" >>,
    << <<"n", "e", "w">>, "new_kwd" >>,
    << <<"a", "s">>, "as_kwd" >>,
    << <<"m", "o", "d", "u", "l", "e">>, "module_kwd" >>,
    << <<"l", "o", "o", "p">>, "loop_kwd" >>,
    << <<"w", "h", "i", "l", "e">>, "while_kwd" >>,
    << <<"f", "o", "r">>, "for_kwd" >>,
    << <<"i", "n">>, "in_kwd" >>,
    << <<"b", "r", "e", "a", "k">>, "break_kwd" >>,
    << <<"s", "e", "l", "f">>, "self_kwd" >>,
    << <<"e", "l", "i", "f">>, "elif_kwd" >>,
    << <<"i", "f">>, "if_kwd" >>,
    << <<"e", "l", "s", "e">>, "else_kwd" >>,
    << <<"i", "m", "p", "o", "r", "t">>, "import_kwd" >>,
    << <<"p", "r", "a", "g", "m", "a">>, "pragma_kwd" >>,
    << <<"t", "r", "u", "e">>, "true_kwd" >>,
    << <<"f", "a", "l", "s", "e">>, "false_kwd" >>
>>

WORD_CHARACTERS ==
    {"a","b","c","d","e","f","g","h","i","j","k","l","m",
     "n","o","p","q","r","s","t","u","v","w","x","y","z",
     "A","B","C","D","E","F","G","H","I","J","K","L","M",
     "N","O","P","Q","R","S","T","U","V","W","X","Y","Z", "_"}

DIGIT_CHARACTERS == {"0","1","2","3","4","5","6","7","8","9"}

WORD_CHARACTERS_AFTER == WORD_CHARACTERS \cup DIGIT_CHARACTERS

\* A node of the lex tree.  k names the node; for a node of a direct-map chain
\* i is the index of the entry in DIRECT_MAP and j the number of its
\* characters matched so far (each entry gets a chain of its own).
LexNode(k, i, j) == [k |-> k, i |-> i, j |-> j]
TREE == LexNode("TREE", 0, 0)
newline_node == LexNode("newline", 0, 0)
comment_node == LexNode("comment", 0, 0)
fstring_node == LexNode("fstring", 0, 0)
escape_node == LexNode("escape", 0, 0)
fstring_end_node == LexNode("fstring_end", 0, 0)
wstring_node == LexNode("wstring", 0, 0)
wstring_end_node == LexNode("wstring_end", 0, 0)
identifier_node == LexNode("identifier", 0, 0)
identifier_end_node == LexNode("identifier_end", 0, 0)
integer_node == LexNode("integer", 0, 0)
underscore_node == LexNode("underscore", 0, 0)
integer_end_node == LexNode("integer_end", 0, 0)

\* token types in which the node after an underscore ends an integer too
TokenType_UnderscoreEnds(node) ==
    IF node.k \in {"integer", "integer_end", "underscore"} THEN "integer" ELSE ""

\* Node.token_type ("" stands for None)
TokenType(node) ==
    CASE node.k = "newline" -> "newline"
      [] node.k = "fstring_end" -> "format_string"
      [] node.k = "wstring_end" -> "string"
      [] node.k \in {"identifier", "identifier_end"} -> "identifier"
      [] node.k \in {"integer", "integer_end"} -> "integer"
      [] node.k = "direct" ->
            IF node.j = Len(DIRECT_MAP[node.i][1]) THEN DIRECT_MAP[node.i][2] ELSE ""
      [] OTHER -> ""

\* The first nodes of the direct-map chains whose first character is c, in
\* table order
RECURSIVE DirectStarts(_, _)
DirectStarts(c, i) ==
    IF i > Len(DIRECT_MAP) THEN <<>>
    ELSE (IF DIRECT_MAP[i][1][1] = c THEN <<LexNode("direct", i, 1)>> ELSE <<>>)
         \o DirectStarts(c, i + 1)

Pick(cond, node) == IF cond THEN <<node>> ELSE <<>>

\* Node.evaluate: the targets of the links of node whose condition accepts c,
\* in link order.  c = "" is what read(1) gives at the end of the stream.
Evaluate(node, c) ==
    CASE node.k = "TREE" ->
            Pick(c \in WHITESPACE, TREE)
            \o Pick(c = NEWLINE_CHAR, newline_node)
            \o Pick(c = COMMENT_CHAR, comment_node)
            \o Pick(c = FORMAT_STRING_CHAR, fstring_node)
            \o Pick(c = WYSIWYG_STRING_CHAR, wstring_node)
            \o DirectStarts(c, 1)
            \o Pick(c \in WORD_CHARACTERS, identifier_node)
            \o Pick(c \in DIGIT_CHARACTERS, integer_node)
      [] node.k = "comment" ->
            Pick(c # NEWLINE_CHAR, comment_node)
            \o Pick(c = NEWLINE_CHAR, newline_node)
      [] node.k = "fstring" ->
            Pick(c # FORMAT_STRING_CHAR /\ c # FORMAT_STRING_ESCAPE_CHAR, fstring_node)
            \o Pick(c = FORMAT_STRING_ESCAPE_CHAR, escape_node)
            \o Pick(c = FORMAT_STRING_CHAR, fstring_end_node)
      [] node.k = "escape" -> <<fstring_node>>
      [] node.k = "wstring" ->
            Pick(c # WYSIWYG_STRING_CHAR, wstring_node)
            \o Pick(c = WYSIWYG_STRING_CHAR, wstring_end_node)
      [] node.k = "direct" ->
            Pick(node.j < Len(DIRECT_MAP[node.i][1])
                    /\ DIRECT_MAP[node.i][1][node.j + 1] = c,
                 LexNode("direct", node.i, node.j + 1))
      [] node.k = "identifier" -> Pick(c \in WORD_CHARACTERS_AFTER, identifier_end_node)
      [] node.k = "identifier_end" -> Pick(c \in WORD_CHARACTERS_AFTER, identifier_end_node)
      [] node.k = "integer" ->
            Pick(c = "_", underscore_node) \o Pick(c \in DIGIT_CHARACTERS, integer_end_node)
      [] node.k = "underscore" -> Pick(c \in DIGIT_CHARACTERS, integer_end_node)
      [] node.k = "integer_end" ->
            Pick(c = "_", underscore_node) \o Pick(c \in DIGIT_CHARACTERS, integer_end_node)
      [] OTHER -> <<>>

RECURSIVE EvaluateAll(_, _)
EvaluateAll(nodes, c) ==
    IF nodes = <<>> THEN <<>> ELSE Evaluate(Head(nodes), c) \o EvaluateAll(Tail(nodes), c)

\* the character read(1) returns when Lexer.position is pos before the read
ReadAt(src, pos) == IF pos + 1 <= Len(src) THEN src[pos + 1] ELSE ""

\* Node.getToken: the verify hook of the two string end nodes strips the quotes
GetToken(node, start, stop, value) ==
    [type |-> TokenType(node), start |-> start, end |-> stop,
     data |-> IF node.k \in {"fstring_end", "wstring_end"}
              THEN Slice(value, 1, Len(value) - 1) ELSE value]

\* an outputNode that gives None at the end of the stream whatever the nodes
OutputNode_EndAnywhere(nodes, start, data, pos, cur) ==
    LET typed == {j \in 1..Len(nodes) : TokenType(nodes[j]) # ""}
    IN IF typed # {}
       THEN [kind |-> "token",
             token |-> GetToken(nodes[CHOOSE j \in typed : \A l \in typed : j <= l],
                                start, pos - 1, data)]
       ELSE IF cur = "" THEN [kind |-> "eoi"]
       ELSE [kind |-> "error"]

\* an outputNode in which the last node with a token type gives the token
OutputNode_LastNode(nodes, start, data, pos, cur) ==
    LET typed == {j \in 1..Len(nodes) : TokenType(nodes[j]) # ""}
    IN IF typed # {}
       THEN [kind |-> "token",
             token |-> GetToken(nodes[CHOOSE j \in typed : \A l \in typed : l <= j],
                                start, pos - 1, data)]
       ELSE IF cur = "" /\ \E j \in 1..Len(nodes) : nodes[j] = TREE
       THEN [kind |-> "eoi"]
       ELSE [kind |-> "error"]

\* Lexer.outputNode: the first node with a token type gives the token, the
\* root at the end of the stream gives None, anything else raises SyntaxError
RECURSIVE OutputNode(_, _, _, _, _)
OutputNode(nodes, start, data, pos, cur) ==
    IF nodes = <<>> THEN [kind |-> "error"]
    ELSE IF TokenType(Head(nodes)) # ""
         THEN [kind |-> "token", token |-> GetToken(Head(nodes), start, pos - 1, data)]
    ELSE IF Head(nodes) = TREE /\ cur = ""
         THEN [kind |-> "eoi"]
    ELSE OutputNode(Tail(nodes), start, data, pos, cur)

\* The loop of Lexer.lex.  The result carries the position and current
\* character the call leaves behind.
RECURSIVE LexLoop(_, _, _, _, _, _)
LexLoop(src, pos, cur, current_nodes, token_start, token_data) ==
    LET next_nodes == EvaluateAll(current_nodes, cur) IN
    IF Len(next_nodes) = 0
    THEN [out |-> OutputNode(current_nodes, token_start, token_data, pos, cur),
          position |-> pos, current |-> cur]
    ELSE LET restart == Len(next_nodes) = 1 /\ next_nodes[1] = TREE
             start2 == IF restart THEN pos ELSE token_start
             data2 == IF restart THEN <<>>
                      ELSE IF cur = "" THEN token_data ELSE Append(token_data, cur)
         IN IF cur = ""
            THEN [out |-> [kind |-> "eoi"], position |-> pos, current |-> cur]
            ELSE LexLoop(src, pos + 1, ReadAt(src, pos), next_nodes, start2, data2)

Lex(src, pos, cur) == LexLoop(src, pos, cur, <<TREE>>, pos - 1, <<>>)

ResIdle ==
    /\ rReference = ""
    /\ rExclude = 0
    /\ rScope = 0
    /\ rFound = <<>>
    /\ rVisited = <<>>
    /\ rResult = [error |-> "", message |-> "", value |-> 0]
    /\ resState = "idle"

ParIdle ==
    /\ pArguments = <<>>
    /\ pDefaultValues = <<>>
    /\ pReturnType = 0
    /\ pInstructions = <<>>
    /\ pOverloads = <<>>
    /\ pIndex = 0
    /\ pInDefaults = TRUE
    /\ pMethod = 0
    /\ parseState = "idle"

CallIdle ==
    /\ pInput = <<>>
    /\ pTokens = <<>>
    /\ pBuffered = 0
    /\ pValues = <<>>
    /\ pOperations = <<>>
    /\ pValue = <<>>
    /\ pChildren = <<>>
    /\ pDeclared = <<>>
    /\ callState = "idle"

OpIdle ==
    /\ added = <<>>
    /\ opState = "idle"
    /\ snapshot = <<>>
    /\ compared = <<>>
    /\ compatible = <<>>

VerIdle ==
    /\ heap = <<>>
    /\ builtins = 0
    /\ scope = 0
    /\ softStack = <<>>
    /\ stack = <<>>
    /\ retval = 0
    /\ raised = <<>>
    /\ outcome = "run"
    /\ program = <<>>

LexInit ==
    /\ VerIdle
    /\ OpIdle
    /\ ResIdle
    /\ ParIdle
    /\ CallIdle
    /\ source \in SeqsUpTo(Alphabet, MaxSourceLen)
    /\ position = 1                       \* Lexer.__init__ calls next() once
    /\ current = ReadAt(source, 0)
    /\ tokens = <<>>
    /\ lexState = "run"

\* One call of Lexer.lex() by the parser
LexCall ==
    /\ lexState = "run"
    /\ LET r == Lex(source, position, current) IN
        /\ position' = r.position
        /\ current' = r.current
        /\ tokens' = IF r.out.kind = "token" THEN Append(tokens, r.out.token) ELSE tokens
        /\ lexState' = IF r.out.kind = "token" THEN "run" ELSE r.out.kind
    /\ UNCHANGED <<source, verVars, resVars, parVars, opVars, callVars>>

LexNext == LexCall

SpecLex == LexInit /\ [][LexNext]_vars

-----------------------------------------------------------------------------
(***************************************************************************)
(* IR OBJECTS  (compiler/lekvar/lekvar.py)                                 *)
(*                                                                         *)
(* An object is a record; k is its class.  A field that holds an object    *)
(* holds its identity, 0 for None.  Every operator that creates or changes *)
(* objects takes the heap and gives the new heap back.                     *)
(***************************************************************************)

None == 0

\* TLC evaluates an argument of an operator where the operator first uses it.
\* Every operator that hands the heap on looks at it first: the heap is then
\* computed before the operator descends, and the evaluation does not nest
\* once for every object made so far.
IsHeap(h) == Len(h) >= 0

\* Let(v, F) is F(v) with v evaluated once and before F is applied, the way
\* a statement binds a name to the value of an expression
Let(v, F(_)) == CASE v = v -> F(v)

Alloc(h, rec) ==
    CASE IsHeap(h) -> [h |-> Append(h, rec), id |-> Len(h) + 1]

\* Context.addChild: children[child.name] = child, child.bound_context = self
\* (a dict keeps the place of a key that is already there)
AddChild(h, ctx, child) ==
    CASE IsHeap(h) ->
    LET name == h[child].name
        at == {j \in 1..Len(h[ctx].names) : h[ctx].names[j] = name}
        h1 == IF at = {}
              THEN [h EXCEPT ![ctx].names = Append(@, name), ![ctx].nodes = Append(@, child)]
              ELSE [h EXCEPT ![ctx].nodes = [@ EXCEPT ![CHOOSE j \in at : TRUE] = child]]
    IN [h1 EXCEPT ![child].bound_context = ctx]

\* Context.fakeChild
FakeChild(h, ctx, child) ==
    CASE IsHeap(h) ->
    [h EXCEPT ![child].bound_context = ctx]

RECURSIVE AddChildren(_, _, _)
AddChildren(h, ctx, children) ==
    CASE IsHeap(h) ->
    IF children = <<>> THEN h
    ELSE AddChildren(AddChild(h, ctx, Head(children)), ctx, Tail(children))

\* Context.__init__
NewContext(h, owner, children) ==
    CASE IsHeap(h) ->
    Let(Alloc(h, [k |-> "Context", scope |-> owner, names |-> <<>>, nodes |-> <<>>]),
        LAMBDA a : [h |-> AddChildren(a.h, a.id, children), id |-> a.id])

\* Context.__contains__ and Context.__getitem__
InContext(h, ctx, name) == \E j \in 1..Len(h[ctx].names) : h[ctx].names[j] = name
GetChild(h, ctx, name) ==
    h[ctx].nodes[CHOOSE j \in 1..Len(h[ctx].names) : h[ctx].names[j] = name]

\* DependentType.__init__
NewDependentType(h, compatibles) ==
    Alloc(h, [k |-> "DependentType", compatibles |-> compatibles, target |-> None,
              bound_context |-> None])

\* FunctionType.__init__
NewFunctionType(h, arguments, return_type) ==
    Alloc(h, [k |-> "FunctionType", arguments |-> arguments, return_type |-> return_type,
              verified |-> FALSE, bound_context |-> None])

\* Variable.__init__
NewVariable(h, name, type) ==
    Alloc(h, [k |-> "Variable", name |-> name, type |-> type, static |-> FALSE,
              bound_context |-> None])

\* the loop of Function.__init__ that gives every untyped argument a
\* DependentType
RECURSIVE FillDependent(_, _)
FillDependent(h, args) ==
    CASE IsHeap(h) ->
    IF args = <<>> THEN h
    ELSE IF h[Head(args)].type = None
         THEN Let(NewDependentType(h, <<>>), LAMBDA d :
                  FillDependent([d.h EXCEPT ![Head(args)].type = d.id], Tail(args)))
         ELSE FillDependent(h, Tail(args))

\* Function.__init__ (static is False at construction: no caller passes it);
\* constructor is TRUE for an object of the subclass Constructor
NewFunction(h, name, arguments, instructions, return_type, constructor) ==
    CASE IsHeap(h) ->
    LET f == Len(h) + 1
        h1 == Append(h, [k |-> "Function", name |-> name, static |-> FALSE,
                         local_context |-> None, bound_context |-> None,
                         arguments |-> arguments, instructions |-> instructions,
                         type |-> None, verified |-> FALSE, constructor |-> constructor,
                         dependent |-> \E i \in 1..Len(arguments) :
                                            h[arguments[i]].type = None])
    IN Let(NewContext(h1, f, arguments), LAMBDA c :
       Let(FillDependent(c.h, arguments), LAMBDA h2 :
       Let(NewFunctionType(h2, [i \in 1..Len(arguments) |-> h2[arguments[i]].type],
                           return_type), LAMBDA t :
           [h |-> [t.h EXCEPT ![f].local_context = c.id, ![f].type = t.id], id |-> f])))

\* Method.addOverload
AddOverload(h, m, overload) ==
    CASE IsHeap(h) ->
    LET ctx == h[m].overload_context
    IN AddChild([h EXCEPT ![overload].name = ToString(Len(h[ctx].names))], ctx, overload)

RECURSIVE AddOverloads(_, _, _)
AddOverloads(h, m, overloads) ==
    CASE IsHeap(h) ->
    IF overloads = <<>> THEN h
    ELSE AddOverloads(AddOverload(h, m, Head(overloads)), m, Tail(overloads))

\* Method.__init__
NewMethod(h, name, overloads) ==
    CASE IsHeap(h) ->
    LET m == Len(h) + 1
        h1 == Append(h, [k |-> "Method", name |-> name, overload_context |-> None,
                         verified |-> FALSE, static |-> FALSE, bound_context |-> None])
    IN Let(NewContext(h1, m, <<>>), LAMBDA c :
           [h |-> AddOverloads([c.h EXCEPT ![m].overload_context = c.id], m, overloads),
            id |-> m])

\* Constructor.__init__ with the three statements of the loop of
\* Class.__init__ that install the new object in place of the overload.  A
\* constructor written with a return type raises TypeError: no program of
\* the model has one.
RECURSIVE MakeConstructors(_, _, _, _)
MakeConstructors(h, cls, octx, j) ==
    CASE IsHeap(h) ->
    IF j > Len(h[octx].nodes) THEN h
    ELSE LET old == h[octx].nodes[j]
         IN Let(NewFunction(h, h[old].name, h[old].arguments, h[old].instructions,
                            h[h[old].type].return_type, TRUE), LAMBDA n :
                MakeConstructors([n.h EXCEPT ![h[old].type].return_type = cls,
                                             ![octx].nodes = [@ EXCEPT ![j] = n.id],
                                             ![n.id].bound_context = octx],
                                 cls, octx, j + 1))

\* Class.__init__ (closed_context, which no lookup reads, is left out)
NewClass(h, name, constructor, attributes) ==
    CASE IsHeap(h) ->
    LET c == Len(h) + 1
        h1 == Append(h, [k |-> "Class", name |-> name, constructor |-> constructor,
                         instance_context |-> None, verified |-> FALSE,
                         static |-> FALSE, bound_context |-> None])
    IN Let(NewContext(h1, c, attributes), LAMBDA ic :
       Let([ic.h EXCEPT ![c].instance_context = ic.id], LAMBDA h2 :
           [h |-> IF constructor = None THEN h2
                  ELSE FakeChild(MakeConstructors(h2, c, h2[constructor].overload_context, 1),
                                 ic.id, constructor),
            id |-> c]))

RECURSIVE SetStatic(_, _)
SetStatic(h, children) ==
    CASE IsHeap(h) ->
    IF children = <<>> THEN h
    ELSE SetStatic([h EXCEPT ![Head(children)].static = TRUE], Tail(children))

\* Module.__init__
NewModule(h, name, children, main) ==
    CASE IsHeap(h) ->
    LET m == Len(h) + 1
        h1 == Append(h, [k |-> "Module", name |-> name, context |-> None, main |-> main,
                         verified |-> FALSE, static |-> TRUE, bound_context |-> None])
    IN Let(NewContext(h1, m, children), LAMBDA c :
           [h |-> FakeChild(SetStatic([c.h EXCEPT ![m].context = c.id], children),
                            c.id, main),
            id |-> m])

NewLoop(h, instructions) ==
    Alloc(h, [k |-> "Loop", instructions |-> instructions, function |-> None])
NewBreak(h) == Alloc(h, [k |-> "Break", loop |-> None])
NewBranch(h, condition, true_instructions, false_instructions) ==
    Alloc(h, [k |-> "Branch", condition |-> condition,
              true_instructions |-> true_instructions,
              false_instructions |-> false_instructions, function |-> None])
NewAssignment(h, variable, value) ==
    Alloc(h, [k |-> "Assignment", variable |-> variable, value |-> value, scope |-> None])
NewCall(h, called, values) ==
    Alloc(h, [k |-> "Call", called |-> called, values |-> values, function |-> None])
NewLiteral(h, type) == Alloc(h, [k |-> "Literal", type |-> type])
NewReference(h, reference) ==
    Alloc(h, [k |-> "Reference", reference |-> reference, value |-> None,
              verified |-> FALSE, bound_context |-> None])
NewReturn(h, value) == Alloc(h, [k |-> "Return", value |-> value, function |-> None])

-----------------------------------------------------------------------------
(***************************************************************************)
(* Properties of objects, name lookup, compatibility and copying           *)
(***************************************************************************)

\* isinstance(obj, Function): a Constructor is a Function
IsFunction(h, n) == n # None /\ h[n].k = "Function"

\* BoundObject.dependent, overridden by Function.__init__
Dependent(h, n) == IF h[n].k = "Function" THEN h[n].dependent ELSE FALSE

\* the property local_context of Object, Module, Function, Class and Reference
RECURSIVE LocalContext(_, _)
LocalContext(h, n) ==
    CASE h[n].k = "Module" -> h[n].context
      [] h[n].k = "Function" ->
            IF h[n].static THEN h[n].bound_context ELSE h[n].local_context
      [] h[n].k = "Class" -> h[n].instance_context
      [] h[n].k = "Reference" -> LocalContext(h, h[n].value)
      [] OTHER -> None

\* the property bound_context of Function; the attribute of every other
\* object.  (Every static Function of the model is a child of a Module, so
\* the context it reads here is there.)
BoundContext(h, n) ==
    IF h[n].k = "Function" /\ h[n].static
    THEN h[h[h[n].bound_context].scope].bound_context
    ELSE h[n].bound_context

\* one turn of the loop of resolveReference: the objects the scope adds to
\* found, and the scope the walk moves to
Consulted(h, s, reference) ==
    LET context == LocalContext(h, s)
    IN IF context # None /\ InContext(h, context, reference)
       THEN <<GetChild(h, context, reference)>> ELSE <<>>

WalkUp(h, b, s) ==
    IF BoundContext(h, s) # None THEN h[BoundContext(h, s)].scope ELSE b

RECURSIVE WalkFound(_, _, _, _)
WalkFound(h, b, s, reference) ==
    Consulted(h, s, reference)
        \o (IF s = b THEN <<>> ELSE WalkFound(h, b, WalkUp(h, b, s), reference))

\* the end of resolveReference: the exclusion and the choice of the result
Resolution(found, exclude) ==
    LET kept == SelectSeq(found, LAMBDA o : o # exclude)
    IN IF Len(kept) < 1
       THEN [error |-> "MissingReferenceError", message |-> "No reference to",
             value |-> None]
       ELSE IF Len(kept) > 1
       THEN [error |-> "AmbiguityError", message |-> "Ambiguous reference to",
             value |-> None]
       ELSE [error |-> "", message |-> "", value |-> kept[1]]

resolveReference(h, b, s, reference, exclude) ==
    Resolution(WalkFound(h, b, s, reference), exclude)

\* resolveValue of Object and Reference
RECURSIVE ResolveValue(_, _)
ResolveValue(h, n) ==
    IF h[n].k = "Reference" THEN ResolveValue(h, h[n].value) ELSE n

\* resolveType of Function, Variable, Literal, Reference and Call; None for
\* an instruction
RECURSIVE ResolveType(_, _)
ResolveType(h, n) ==
    CASE h[n].k = "Function" -> h[n].type
      [] h[n].k = "Variable" -> h[n].type
      [] h[n].k = "Literal" -> h[n].type
      [] h[n].k = "Reference" -> ResolveType(h, h[n].value)
      [] h[n].k = "Call" -> h[ResolveType(h, h[n].function)].return_type
      [] OTHER -> None

\* self.compatibles.append(other) whatever the list holds
Observe_Always(compatibles, other) == Append(compatibles, other)

\* if other not in self.compatibles: self.compatibles.append(other)
Observe(compatibles, other) ==
    IF \E j \in 1..Len(compatibles) : compatibles[j] = other
    THEN compatibles
    ELSE Append(compatibles, other)

\* checkCompatibility of FunctionType, DependentType, Class and Reference.
\* A DependentType without a target records the other type, so the heap
\* comes back with the answer.
RECURSIVE CheckCompatibility(_, _, _)
RECURSIVE CheckArguments(_, _, _, _)
CheckCompatibility(h, self, other) ==
    CASE IsHeap(h) ->
    CASE h[self].k = "Class" -> [h |-> h, ok |-> ResolveValue(h, other) = self]
      [] h[self].k = "Reference" -> CheckCompatibility(h, h[self].value, other)
      [] h[self].k = "DependentType" ->
            IF h[self].target # None THEN CheckCompatibility(h, h[self].target, other)
            ELSE [h |-> [h EXCEPT ![self].compatibles = Observe(@, other)], ok |-> TRUE]
      [] h[self].k = "FunctionType" ->
            LET o == ResolveValue(h, other)
            IN IF h[o].k = "FunctionType"
               THEN IF Len(h[self].arguments) # Len(h[o].arguments)
                    THEN [h |-> h, ok |-> FALSE]
                    ELSE CheckArguments(h, h[self].arguments, h[o].arguments, 1)
               ELSE CheckCompatibility(h, o, self)

\* the loop over zip(self.arguments, other.arguments)
CheckArguments(h, self_args, other_args, i) ==
    CASE IsHeap(h) ->
    IF i > Len(self_args) THEN [h |-> h, ok |-> TRUE]
    ELSE Let(CheckCompatibility(h, self_args[i], other_args[i]), LAMBDA r :
             IF r.ok THEN CheckArguments(r.h, self_args, other_args, i + 1)
             ELSE CheckCompatibility(r.h, other_args[i], self_args[i]))

\* copy(obj) and the copy methods.  Literal.copy gives the object itself;
\* Loop.copy and Branch.copy give a new object around the same instruction
\* lists (and the same condition).  Class.copy and Module.copy cannot run
\* to the end (they call the constructors with the wrong arguments), and no
\* program of the model reaches them.
RECURSIVE Copy(_, _)
RECURSIVE CopyAll(_, _)
Copy(h, n) ==
    CASE IsHeap(h) ->
    IF n = None THEN [h |-> h, id |-> None]
    ELSE CASE h[n].k = "Function" ->
                Let(CopyAll(h, h[n].arguments), LAMBDA a :
                Let(CopyAll(a.h, h[n].instructions), LAMBDA i :
                Let(NewFunction(i.h, h[n].name, a.ids, i.ids,
                                h[h[n].type].return_type, FALSE), LAMBDA f :
                    [h |-> [f.h EXCEPT ![f.id].static = h[n].static], id |-> f.id])))
           [] h[n].k = "Variable" ->
                Let(Copy(h, h[n].type), LAMBDA t :
                Let(NewVariable(t.h, h[n].name, t.id), LAMBDA v :
                    [h |-> [v.h EXCEPT ![v.id].static = h[n].static], id |-> v.id]))
           [] h[n].k = "DependentType" -> NewDependentType(h, h[n].compatibles)
           [] h[n].k = "FunctionType" ->
                Let(CopyAll(h, h[n].arguments), LAMBDA a :
                Let(Copy(a.h, h[n].return_type), LAMBDA r :
                    NewFunctionType(r.h, a.ids, r.id)))
           [] h[n].k = "Method" ->
                Let(CopyAll(h, h[h[n].overload_context].nodes), LAMBDA o :
                    NewMethod(o.h, h[n].name, o.ids))
           [] h[n].k = "Reference" -> NewReference(h, h[n].reference)
           [] h[n].k = "Assignment" ->
                Let(Copy(h, h[n].variable), LAMBDA v :
                Let(Copy(v.h, h[n].value), LAMBDA e :
                    NewAssignment(e.h, v.id, e.id)))
           [] h[n].k = "Call" ->
                Let(Copy(h, h[n].called), LAMBDA c :
                Let(CopyAll(c.h, h[n].values), LAMBDA v :
                    NewCall(v.h, c.id, v.ids)))
           [] h[n].k = "Return" ->
                Let(Copy(h, h[n].value), LAMBDA v : NewReturn(v.h, v.id))
           [] h[n].k = "Loop" -> NewLoop(h, h[n].instructions)
           [] h[n].k = "Break" -> NewBreak(h)
           [] h[n].k = "Branch" ->
                NewBranch(h, h[n].condition, h[n].true_instructions,
                          h[n].false_instructions)
           [] OTHER -> [h |-> h, id |-> n]

\* list(map(copy, objects))
CopyAll(h, nodes) ==
    CASE IsHeap(h) ->
    IF nodes = <<>> THEN [h |-> h, ids |-> <<>>]
    ELSE Let(Copy(h, Head(nodes)), LAMBDA c :
         Let(CopyAll(c.h, Tail(nodes)), LAMBDA r :
             [h |-> r.h, ids |-> <<c.id>> \o r.ids]))

-----------------------------------------------------------------------------
(***************************************************************************)
(* PROGRAMS                                                                *)
(*                                                                         *)
(* A program is written as a term and built with the constructors, in the  *)
(* shape the parser gives it: every def is a Method of unnamed Functions,  *)
(* every type is a Reference to its name, a class has a Method of          *)
(* constructors, and the builtins are a Module of the classes Int and      *)
(* String.                                                                 *)
(***************************************************************************)

IntLiteral == [t |-> "Literal", type |-> "Int"]
StringLiteral == [t |-> "Literal", type |-> "String"]
Ref(name) == [t |-> "Reference", name |-> name]
ReturnT(v) == [t |-> "Return", v |-> v]
\* name = v and name:type = v
AssignT(name, v) == [t |-> "Assignment", name |-> name, type |-> "", v |-> v]
TypedAssignT(name, type, v) == [t |-> "Assignment", name |-> name, type |-> type, v |-> v]
CallT(name, args) == [t |-> "Call", name |-> name, args |-> args]
LoopT(body) == [t |-> "Loop", body |-> body]
BranchT(a, b) == [t |-> "Branch", c |-> IntLiteral, a |-> a, b |-> b]
BreakT == [t |-> "Break"]
Arg(name, type) == [name |-> name, type |-> type]
FunctionT(args, body, ret) == [args |-> args, body |-> body, ret |-> ret]
MethodT(name, overloads) == [name |-> name, overloads |-> overloads]
ClassT(name, constructors) == [name |-> name, constructors |-> constructors]

BuildType(h, name) ==
    CASE IsHeap(h) ->
    IF name = "" THEN [h |-> h, id |-> None] ELSE NewReference(h, name)

BuildValue(h, v) ==
    CASE IsHeap(h) ->
    IF v.t = "Literal"
    THEN Let(NewReference(h, v.type), LAMBDA r : NewLiteral(r.h, r.id))
    ELSE NewReference(h, v.name)

RECURSIVE BuildValues(_, _)
BuildValues(h, vs) ==
    CASE IsHeap(h) ->
    IF vs = <<>> THEN [h |-> h, ids |-> <<>>]
    ELSE Let(BuildValue(h, Head(vs)), LAMBDA c :
         Let(BuildValues(c.h, Tail(vs)), LAMBDA r :
             [h |-> r.h, ids |-> <<c.id>> \o r.ids]))

RECURSIVE BuildInstruction(_, _)
RECURSIVE BuildInstructions(_, _)
BuildInstruction(h, i) ==
    CASE IsHeap(h) ->
    CASE i.t = "Return" ->
            Let(BuildValue(h, i.v), LAMBDA v : NewReturn(v.h, v.id))
      [] i.t = "Assignment" ->
            Let(BuildType(h, i.type), LAMBDA t :
            Let(NewVariable(t.h, i.name, t.id), LAMBDA x :
            Let(BuildValue(x.h, i.v), LAMBDA v :
                NewAssignment(v.h, x.id, v.id))))
      [] i.t = "Call" ->
            Let(NewReference(h, i.name), LAMBDA c :
            Let(BuildValues(c.h, i.args), LAMBDA v :
                NewCall(v.h, c.id, v.ids)))
      [] i.t = "Loop" ->
            Let(BuildInstructions(h, i.body), LAMBDA b : NewLoop(b.h, b.ids))
      [] i.t = "Branch" ->
            Let(BuildValue(h, i.c), LAMBDA c :
            Let(BuildInstructions(c.h, i.a), LAMBDA a :
            Let(BuildInstructions(a.h, i.b), LAMBDA b :
                NewBranch(b.h, c.id, a.ids, b.ids))))
      [] i.t = "Break" -> NewBreak(h)

BuildInstructions(h, is) ==
    CASE IsHeap(h) ->
    IF is = <<>> THEN [h |-> h, ids |-> <<>>]
    ELSE Let(BuildInstruction(h, Head(is)), LAMBDA c :
         Let(BuildInstructions(c.h, Tail(is)), LAMBDA r :
             [h |-> r.h, ids |-> <<c.id>> \o r.ids]))

RECURSIVE BuildArguments(_, _)
BuildArguments(h, args) ==
    CASE IsHeap(h) ->
    IF args = <<>> THEN [h |-> h, ids |-> <<>>]
    ELSE Let(BuildType(h, Head(args).type), LAMBDA t :
         Let(NewVariable(t.h, Head(args).name, t.id), LAMBDA v :
         Let(BuildArguments(v.h, Tail(args)), LAMBDA r :
             [h |-> r.h, ids |-> <<v.id>> \o r.ids])))

BuildFunction(h, name, f) ==
    CASE IsHeap(h) ->
    Let(BuildArguments(h, f.args), LAMBDA a :
    Let(BuildInstructions(a.h, f.body), LAMBDA b :
    Let(BuildType(b.h, f.ret), LAMBDA r :
        NewFunction(r.h, name, a.ids, b.ids, r.id, FALSE))))

RECURSIVE BuildFunctions(_, _)
BuildFunctions(h, fs) ==
    CASE IsHeap(h) ->
    IF fs = <<>> THEN [h |-> h, ids |-> <<>>]
    ELSE Let(BuildFunction(h, "", Head(fs)), LAMBDA c :
         Let(BuildFunctions(c.h, Tail(fs)), LAMBDA r :
             [h |-> r.h, ids |-> <<c.id>> \o r.ids]))

BuildMethod(h, m) ==
    CASE IsHeap(h) ->
    Let(BuildFunctions(h, m.overloads), LAMBDA o : NewMethod(o.h, m.name, o.ids))

BuildClass(h, c) ==
    CASE IsHeap(h) ->
    Let(BuildMethod(h, MethodT("", c.constructors)), LAMBDA m :
        NewClass(m.h, c.name, m.id, <<>>))

RECURSIVE BuildChildren(_, _, _)
BuildChildren(h, methods, classes) ==
    CASE IsHeap(h) ->
    IF methods # <<>>
    THEN Let(BuildMethod(h, Head(methods)), LAMBDA c :
         Let(BuildChildren(c.h, Tail(methods), classes), LAMBDA r :
             [h |-> r.h, ids |-> <<c.id>> \o r.ids]))
    ELSE IF classes # <<>>
    THEN Let(BuildClass(h, Head(classes)), LAMBDA c :
         Let(BuildChildren(c.h, methods, Tail(classes)), LAMBDA r :
             [h |-> r.h, ids |-> <<c.id>> \o r.ids]))
    ELSE [h |-> h, ids |-> <<>>]

\* the builtins: module _builtins with the classes Int and String
BuildBuiltins(h) ==
    Let(NewClass(h, "Int", None, <<>>), LAMBDA i :
    Let(NewClass(i.h, "String", None, <<>>), LAMBDA s :
    Let(NewFunction(s.h, "main", <<>>, <<>>, None, FALSE), LAMBDA f :
        NewModule(f.h, "_builtins", <<i.id, s.id>>, f.id))))

\* a module of methods and classes with the instructions of main
BuildModule(h, p) ==
    CASE IsHeap(h) ->
    Let(BuildChildren(h, p.methods, p.classes), LAMBDA c :
    Let(BuildFunction(c.h, "main", FunctionT(<<>>, p.main, "")), LAMBDA f :
        NewModule(f.h, "main", c.ids, f.id)))

-----------------------------------------------------------------------------
(***************************************************************************)
(* THE VERIFIER  (compiler/lekvar/lekvar.py)                               *)
(*                                                                         *)
(* verify() and resolveCall() call each other recursively.  stack holds    *)
(* what the running calls still have to do, innermost first; one action    *)
(* takes the first frame and runs the code up to the next call.            *)
(***************************************************************************)

VerifyF(n) == [op |-> "verify", n |-> n]
\* for instruction in instructions: instruction.verify()
EachF(nodes, i) == [op |-> "each", nodes |-> nodes, i |-> i]
\* the rest of a with State.scoped(scope) block: previous is its local
ScopedF(s, previous) == [op |-> "scoped", scope |-> s, previous |-> previous]
\* the start (with the instructions of the block) and the rest of a with
\* State.softScoped(scope) block
SoftEnterF(s, nodes) == [op |-> "softEnter", scope |-> s, nodes |-> nodes]
SoftExitF(s) == [op |-> "softScoped", scope |-> s]
VerifySelfF(n) == [op |-> "verifySelf", n |-> n]
AssignedF(n) == [op |-> "assigned", n |-> n]
ArgumentsF(n, i, types) == [op |-> "arguments", n |-> n, i |-> i, types |-> types]
ResolveCallF(n, call) == [op |-> "resolveCall", n |-> n, call |-> call]
CalledF(n) == [op |-> "called", n |-> n]
OverloadsF(m, call, i, matches, pc) ==
    [op |-> "overloads", n |-> m, call |-> call, i |-> i, matches |-> matches, pc |-> pc]
TemplateF(fn, original, call) ==
    [op |-> "template", fn |-> fn, n |-> original, call |-> call]
ConstructedF(c) == [op |-> "constructed", n |-> c]
ReturnedF(n) == [op |-> "returned", n |-> n]

Running(op) == outcome = "run" /\ stack # <<>> /\ Head(stack).op = op
Verifying(k) == Running("verify") /\ heap[Head(stack).n].k = k

\* a step that raises nothing
Go(h, s, soft, stk, value) ==
    /\ heap' = h
    /\ scope' = s
    /\ softStack' = soft
    /\ stack' = stk
    /\ retval' = value
    /\ UNCHANGED <<builtins, raised, outcome, program, lexVars, callVars, opVars, resVars, parVars>>

\* the try of Method.resolveCall that is nearest on the stack: a TypeError
\* goes to its except clause, which takes the next overload
Handlers(stk) == {j \in 1..Len(stk) : stk[j].op = "overloads"}
Caught(stk) ==
    LET j == CHOOSE j \in Handlers(stk) : \A l \in Handlers(stk) : j <= l
    IN <<[stk[j] EXCEPT !.i = @ + 1, !.pc = "try"]>> \o SubSeq(stk, j + 1, Len(stk))

\* raise: the frames above the handler are left.  The generators of scoped
\* and softScoped have no try around their yield, so the statements after
\* it do not run when the block raises: State.scope and
\* State.soft_scope_stack stay as they are.
Raise(h, kind, message, stk) ==
    /\ heap' = h
    /\ raised' = <<kind, message>>
    /\ IF kind = "TypeError" /\ Handlers(stk) # {}
       THEN stack' = Caught(stk) /\ outcome' = outcome
       ELSE stack' = <<>> /\ outcome' = kind
    /\ UNCHANGED <<scope, softStack, retval, builtins, program, lexVars, callVars, opVars,
                   resVars, parVars>>

\* with State.scoped(n): first, then
Scoped(h, n, first) ==
    Go(h, n, <<>>, first \o <<ScopedF(n, <<scope, softStack>>)>> \o Tail(stack), retval)

\* a Module.verify without the test of the verified flag
VerifyModule_Unflagged ==
    /\ Verifying("Module")
    /\ LET n == Head(stack).n
       IN Scoped([heap EXCEPT ![n].verified = TRUE], n,
                 <<VerifyF(heap[n].main), EachF(heap[heap[n].context].nodes, 1)>>)

\* Module.verify; Context.verify goes through the children
VerifyModule ==
    /\ Verifying("Module")
    /\ LET n == Head(stack).n
       IN IF heap[n].verified THEN Go(heap, scope, softStack, Tail(stack), retval)
          ELSE Scoped([heap EXCEPT ![n].verified = TRUE], n,
                      <<VerifyF(heap[n].main), EachF(heap[heap[n].context].nodes, 1)>>)

\* a verify() that never takes the object for verified
AlreadyVerified_Never(h, n) == FALSE

\* if self.verified: return, of Function.verify and Method.verify
AlreadyVerified(h, n) == h[n].verified

\* Function.verify
VerifyFunction ==
    /\ Verifying("Function")
    /\ LET n == Head(stack).n
       IN IF AlreadyVerified(heap, n) THEN Go(heap, scope, softStack, Tail(stack), retval)
          ELSE Scoped([heap EXCEPT ![n].verified = TRUE], n,
                      <<VerifyF(heap[n].type), EachF(heap[n].instructions, 1),
                        VerifySelfF(n)>>)

\* FunctionType.verify
VerifyFunctionType ==
    /\ Verifying("FunctionType")
    /\ LET n == Head(stack).n
           ret == IF heap[n].return_type # None THEN <<heap[n].return_type>> ELSE <<>>
       IN IF heap[n].verified THEN Go(heap, scope, softStack, Tail(stack), retval)
          ELSE Scoped([heap EXCEPT ![n].verified = TRUE], n,
                      <<EachF(heap[n].arguments \o ret, 1)>>)

\* DependentType.verify
VerifyDependentType ==
    /\ Verifying("DependentType")
    /\ Go(heap, scope, softStack, Tail(stack), retval)

\* Class.verify
VerifyClass ==
    /\ Verifying("Class")
    /\ LET n == Head(stack).n
           ctor == IF heap[n].constructor # None
                   THEN <<VerifyF(heap[n].constructor)>> ELSE <<>>
       IN IF heap[n].verified THEN Go(heap, scope, softStack, Tail(stack), retval)
          ELSE Scoped([heap EXCEPT ![n].verified = TRUE], n,
                      ctor \o <<EachF(heap[heap[n].instance_context].nodes, 1)>>)

\* Method.verify
VerifyMethod ==
    /\ Verifying("Method")
    /\ LET n == Head(stack).n
       IN IF AlreadyVerified(heap, n) THEN Go(heap, scope, softStack, Tail(stack), retval)
          ELSE Scoped([heap EXCEPT ![n].verified = TRUE], n,
                      <<EachF(heap[heap[n].overload_context].nodes, 1)>>)

\* Variable.verify
VerifyVariable ==
    /\ Verifying("Variable")
    /\ LET n == Head(stack).n
       IN Go(heap, scope, softStack,
             (IF heap[n].type # None THEN <<VerifyF(heap[n].type)>> ELSE <<>>)
                 \o Tail(stack), retval)

\* Literal.verify
VerifyLiteral ==
    /\ Verifying("Literal")
    /\ Go(heap, scope, softStack, <<VerifyF(heap[Head(stack).n].type)>> \o Tail(stack),
          retval)

\* Reference.verify
VerifyReference ==
    /\ Verifying("Reference")
    /\ LET n == Head(stack).n
           h1 == [heap EXCEPT ![n].verified = TRUE]
           r == resolveReference(heap, builtins, scope, heap[n].reference, None)
       IN IF heap[n].verified THEN Go(heap, scope, softStack, Tail(stack), retval)
          ELSE IF r.error # ""
          THEN Raise(h1, r.error, r.message, Tail(stack))
          ELSE Go([h1 EXCEPT ![n].value = r.value], scope, softStack,
                  <<VerifyF(r.value)>> \o Tail(stack), retval)

\* the loop of the instruction lists and of Context.verify
Each ==
    /\ Running("each")
    /\ LET f == Head(stack)
       IN IF f.i > Len(f.nodes) THEN Go(heap, scope, softStack, Tail(stack), retval)
          ELSE Go(heap, scope, softStack,
                  <<VerifyF(f.nodes[f.i]), [f EXCEPT !.i = @ + 1]>> \o Tail(stack), retval)

\* State.scoped after the yield
ScopedExit ==
    /\ Running("scoped")
    /\ Go(heap, Head(stack).previous[1], Head(stack).previous[2], Tail(stack), retval)

\* State.softScoped before and after the yield
SoftEnter ==
    /\ Running("softEnter")
    /\ Go(heap, scope, Append(softStack, Head(stack).scope),
          <<EachF(Head(stack).nodes, 1), SoftExitF(Head(stack).scope)>> \o Tail(stack),
          retval)

SoftExit ==
    /\ Running("softScoped")
    /\ IF softStack = <<>>
       THEN Raise(heap, "IndexError", "pop from empty list", Tail(stack))
       ELSE Go(heap, scope, SubSeq(softStack, 1, Len(softStack) - 1), Tail(stack), retval)

IsReturn(h, n) == h[n].k = "Return"

\* the instructions hold a Return at any depth
RECURSIVE HoldsReturn(_, _)
HoldsReturn(h, ids) ==
    \E i \in 1..Len(ids) :
        \/ IsReturn(h, ids[i])
        \/ h[ids[i]].k = "Loop" /\ HoldsReturn(h, h[ids[i]].instructions)
        \/ /\ h[ids[i]].k = "Branch"
           /\ HoldsReturn(h, h[ids[i]].true_instructions \o h[ids[i]].false_instructions)

\* a verifySelf that is content with a Return anywhere in the body
verifySelf_ReturnAnywhere(h, n) ==
    IF ~h[n].constructor /\ ~HoldsReturn(h, h[n].instructions)
                        /\ h[h[n].type].return_type # None
    THEN <<"SemanticError", "All code paths must return">>
    ELSE <<>>

\* Function.verifySelf and Constructor.verifySelf: the error to raise, or <<>>
verifySelf(h, n) ==
    LET returns == \E i \in 1..Len(h[n].instructions) : IsReturn(h, h[n].instructions[i])
    IN IF h[n].constructor
       THEN IF returns THEN <<"SyntaxError", "Returns within constructors are invalid">>
            ELSE <<>>
       ELSE IF ~returns /\ h[h[n].type].return_type # None
            THEN <<"SemanticError", "All code paths must return">>
            ELSE <<>>

VerifySelf ==
    /\ Running("verifySelf")
    /\ LET e == verifySelf(heap, Head(stack).n)
       IN IF e # <<>> THEN Raise(heap, e[1], e[2], Tail(stack))
          ELSE Go(heap, scope, softStack, Tail(stack), retval)

\* Loop.verify
VerifyLoop ==
    /\ Verifying("Loop")
    /\ LET n == Head(stack).n
       IN IF ~IsFunction(heap, scope)
          THEN Raise(heap, "SyntaxError", "Cannot branch outside method", Tail(stack))
          ELSE Go([heap EXCEPT ![n].function = scope], scope, softStack,
                  <<SoftEnterF(n, heap[n].instructions)>> \o Tail(stack), retval)

\* Break._getSoftScope: the first Loop of the soft scope stack
GetSoftScope(h, soft) ==
    LET loops == {j \in 1..Len(soft) : h[soft[j]].k = "Loop"}
    IN IF loops = {} THEN None
       ELSE soft[CHOOSE j \in loops : \A l \in loops : j <= l]

\* Break.verify
VerifyBreak ==
    /\ Verifying("Break")
    /\ LET n == Head(stack).n
           loop == GetSoftScope(heap, softStack)
           h1 == [heap EXCEPT ![n].loop = loop]
       IN IF loop = None
          THEN Raise(h1, "SyntaxError", "Cannot break outside loop", Tail(stack))
          ELSE Go(h1, scope, softStack, Tail(stack), retval)

\* Branch.verify
VerifyBranch ==
    /\ Verifying("Branch")
    /\ LET n == Head(stack).n
       IN IF ~IsFunction(heap, scope)
          THEN Raise(heap, "SyntaxError", "Cannot branch outside method", Tail(stack))
          ELSE Go([heap EXCEPT ![n].function = scope], scope, softStack,
                  <<VerifyF(heap[n].condition),
                    SoftEnterF(n, heap[n].true_instructions \o heap[n].false_instructions)>>
                      \o Tail(stack), retval)

\* Return.verify: the value first, then the rest
VerifyReturn ==
    /\ Verifying("Return")
    /\ LET n == Head(stack).n
       IN Go(heap, scope, softStack,
             <<VerifyF(heap[n].value), ReturnedF(n)>> \o Tail(stack), retval)

Returned ==
    /\ Running("returned")
    /\ LET n == Head(stack).n
           h1 == [heap EXCEPT ![n].function = scope]
           type == heap[scope].type
           value_type == ResolveType(heap, heap[n].value)
       IN IF ~IsFunction(heap, scope)
          THEN Raise(heap, "SyntaxError", "Cannot return outside of a method", Tail(stack))
          ELSE IF heap[type].return_type = None
          THEN Go([h1 EXCEPT ![type].return_type = value_type], scope, softStack,
                  Tail(stack), retval)
          ELSE Go(CheckCompatibility(h1, heap[type].return_type, value_type).h,
                  scope, softStack, Tail(stack), retval)

\* Assignment.verify up to self.variable.verify().  resolveReference gives
\* whatever the name stands for: variable.type raises AttributeError for an
\* object without the attribute type (a Method, a Class, a Module).
VerifyAssignment ==
    /\ Verifying("Assignment")
    /\ LET n == Head(stack).n
           own == heap[n].variable
           h1 == [heap EXCEPT ![n].scope = scope]
           r == resolveReference(heap, builtins, scope, heap[own].name, None)
           variable == r.value
           next(v) == <<VerifyF(heap[n].value), VerifyF(v), AssignedF(n)>> \o Tail(stack)
       IN IF r.error = "MissingReferenceError"
          THEN Go(AddChild(h1, LocalContext(heap, scope), own), scope, softStack,
                  next(own), retval)
          ELSE IF r.error # "" THEN Raise(h1, r.error, r.message, Tail(stack))
          ELSE IF "type" \notin DOMAIN heap[variable]
          THEN Raise(h1, "AttributeError", "object has no attribute 'type'", Tail(stack))
          ELSE IF heap[variable].type = None
          THEN Go([h1 EXCEPT ![variable].type = heap[own].type, ![n].variable = variable],
                  scope, softStack, next(variable), retval)
          ELSE IF heap[own].type # None
          THEN Raise(h1, "TypeError", "Cannot override variable type", Tail(stack))
          ELSE Go([h1 EXCEPT ![n].variable = variable], scope, softStack,
                  next(variable), retval)

\* the end of Assignment.verify
Assigned ==
    /\ Running("assigned")
    /\ LET n == Head(stack).n
           variable == heap[n].variable
           value_type == ResolveType(heap, heap[n].value)
           c == CheckCompatibility(heap, value_type, heap[variable].type)
       IN IF heap[variable].type = None
          THEN Go([heap EXCEPT ![variable].type = value_type], scope, softStack,
                  Tail(stack), retval)
          ELSE IF ~c.ok THEN Raise(c.h, "TypeError", "Cannot assign", Tail(stack))
          ELSE Go(c.h, scope, softStack, Tail(stack), retval)

\* Call.verify
VerifyCall ==
    /\ Verifying("Call")
    /\ LET n == Head(stack).n
       IN Go(heap, scope, softStack,
             <<VerifyF(heap[n].called), ArgumentsF(n, 0, <<>>)>> \o Tail(stack), retval)

\* the loop over self.values (value i has just been verified), then the
\* call type and the call of resolveCall
Arguments ==
    /\ Running("arguments")
    /\ LET f == Head(stack)
           values == heap[f.n].values
           types == IF f.i = 0 THEN f.types
                    ELSE Append(f.types, ResolveType(heap, values[f.i]))
           call_type == NewFunctionType(heap, types, None)
       IN IF f.i < Len(values)
          THEN Go(heap, scope, softStack,
                  <<VerifyF(values[f.i + 1]), ArgumentsF(f.n, f.i + 1, types)>>
                      \o Tail(stack), retval)
          ELSE Go(call_type.h, scope, softStack,
                  <<ResolveCallF(heap[f.n].called, call_type.id), CalledF(f.n)>>
                      \o Tail(stack), retval)

\* self.function = the result of resolveCall
Called ==
    /\ Running("called")
    /\ Go([heap EXCEPT ![Head(stack).n].function = retval], scope, softStack,
          Tail(stack), retval)

ResolvingCall(k) == Running("resolveCall") /\ heap[Head(stack).n].k = k

\* Reference.resolveCall
ResolveCallReference ==
    /\ ResolvingCall("Reference")
    /\ Go(heap, scope, softStack,
          <<ResolveCallF(heap[Head(stack).n].value, Head(stack).call)>> \o Tail(stack),
          retval)

\* Method.resolveCall: the loop over the overloads
ResolveCallMethod ==
    /\ ResolvingCall("Method")
    /\ Go(heap, scope, softStack,
          <<OverloadsF(Head(stack).n, Head(stack).call, 1, <<>>, "try")>> \o Tail(stack),
          retval)

\* try: overload.resolveCall(call)
OverloadTry ==
    /\ Running("overloads")
    /\ LET f == Head(stack)
           overloads == heap[heap[f.n].overload_context].nodes
       IN /\ f.pc = "try"
          /\ f.i <= Len(overloads)
          /\ Go(heap, scope, softStack,
                <<ResolveCallF(overloads[f.i], f.call), [f EXCEPT !.pc = "wait"]>>
                    \o Tail(stack), retval)

\* matches.append(the overload resolveCall returned)
OverloadMatched ==
    /\ Running("overloads")
    /\ LET f == Head(stack)
       IN /\ f.pc = "wait"
          /\ Go(heap, scope, softStack,
                <<[f EXCEPT !.pc = "try", !.i = @ + 1, !.matches = Append(@, retval)]>>
                    \o Tail(stack), retval)

\* Method.resolveCall after the loop: allow only one match
OverloadDecide ==
    /\ Running("overloads")
    /\ LET f == Head(stack)
       IN /\ f.pc = "try"
          /\ f.i > Len(heap[heap[f.n].overload_context].nodes)
          /\ IF Len(f.matches) < 1
             THEN Raise(heap, "TypeError", "is not compatible with", Tail(stack))
             ELSE IF Len(f.matches) > 1 /\ ~Dependent(heap, scope)
             THEN Raise(heap, "TypeError", "Ambiguous overloads", Tail(stack))
             ELSE Go(heap, scope, softStack, Tail(stack), f.matches[1])

\* fn.type.arguments[index] = arg.type.target = call.arguments[index]
RECURSIVE Retarget(_, _, _, _)
Retarget(h, fn, call, index) ==
    CASE IsHeap(h) ->
    IF index > Len(h[fn].arguments) THEN h
    ELSE LET type == h[h[fn].arguments[index]].type
             given == h[call].arguments[index]
         IN IF h[type].k = "DependentType"
            THEN Retarget([h EXCEPT ![type].target = given,
                                    ![h[fn].type].arguments[index] = given],
                          fn, call, index + 1)
            ELSE Retarget(h, fn, call, index + 1)

\* Function.resolveCall
ResolveCallFunction ==
    /\ ResolvingCall("Function")
    /\ LET n == Head(stack).n
           call == Head(stack).call
           c == CheckCompatibility(heap, heap[n].type, call)
           fn == Copy(c.h, n)
       IN IF ~c.ok THEN Raise(c.h, "TypeError", "is not compatible with", Tail(stack))
          ELSE IF ~heap[n].dependent THEN Go(c.h, scope, softStack, Tail(stack), n)
          ELSE Go(Retarget(fn.h, fn.id, call, 1), scope, softStack,
                  <<VerifyF(fn.id), TemplateF(fn.id, n, call)>> \o Tail(stack), retval)

\* return fn
Template ==
    /\ Running("template")
    /\ Go(heap, scope, softStack, Tail(stack), Head(stack).fn)

\* Class.resolveCall
ResolveCallClass ==
    /\ ResolvingCall("Class")
    /\ LET n == Head(stack).n
       IN IF heap[n].constructor = None
          THEN Raise(heap, "TypeError", "does not have a constructor", Tail(stack))
          ELSE Go(heap, scope, softStack,
                  <<ResolveCallF(heap[n].constructor, Head(stack).call), ConstructedF(n)>>
                      \o Tail(stack), retval)

\* function.type.return_type = self; return function
Constructed ==
    /\ Running("constructed")
    /\ Go([heap EXCEPT ![heap[retval].type].return_type = Head(stack).n], scope,
          softStack, Tail(stack), retval)

\* lekvar.verify returns
Verified ==
    /\ outcome = "run"
    /\ stack = <<>>
    /\ heap # <<>>
    /\ outcome' = "ok"
    /\ UNCHANGED <<heap, builtins, scope, softStack, stack, retval, raised, program,
                   lexVars, callVars, opVars, resVars, parVars>>

\* the module given to verify()
MainModule(h) == CHOOSE n \in 1..Len(h) : h[n].k = "Module" /\ h[n].name = "main"

\* module.verify() is called once more on the module whose verify() has
\* returned
VerifyAgain ==
    /\ outcome = "ok"
    /\ snapshot = <<>>
    /\ snapshot' = <<heap, builtins, scope, softStack, raised>>
    /\ stack' = <<VerifyF(MainModule(heap))>>
    /\ outcome' = "run"
    /\ UNCHANGED <<heap, builtins, scope, softStack, retval, raised, program,
                   added, opState, compared, compatible, lexVars, callVars, resVars, parVars>>

-----------------------------------------------------------------------------
(***************************************************************************)
(* The programs verify() is given                                          *)
(***************************************************************************)

MaxOverloads == 3
MaxBodyLen == 2

\* def m(y:Int) end;  def m(x) return x end;  def m(x) loop x = x end end
IntOverload == FunctionT(<<Arg("y", "Int")>>, <<>>, "")
IdOverload == FunctionT(<<Arg("x", "")>>, <<ReturnT(Ref("x"))>>, "")
LoopOverload == FunctionT(<<Arg("x", "")>>, <<LoopT(<<AssignT("x", Ref("x"))>>)>>, "")
Overloads == {IntOverload, IdOverload, LoopOverload}

\* the calls m(1), m("a") and both, followed or not by a break
CallArguments == {<<IntLiteral>>, <<StringLiteral>>, <<IntLiteral, StringLiteral>>}
Tails == {<<>>, <<BreakT>>}

\* the calls stand in main, or in a function d(w) with an untyped argument
CallProgram(overloads, args, caller, tail) ==
    LET body == [i \in 1..Len(args) |-> CallT("m", <<args[i]>>)] \o tail
    IN [kind |-> "call", body |-> body, ret |-> "", called |-> FALSE, classes |-> <<>>,
        methods |-> <<MethodT("m", overloads)>>
            \o (IF caller = "d"
                THEN <<MethodT("d", <<FunctionT(<<Arg("w", "")>>, body, "")>>)>>
                ELSE <<>>),
        main |-> IF caller = "d" THEN <<>> ELSE body]

CallPrograms ==
    {CallProgram(o, a, c, t) :
        o \in SeqsUpTo(Overloads, MaxOverloads) \ {<<>>},
        a \in CallArguments, c \in {"main", "d"}, t \in Tails}

\* the instructions a body is made of
ReturnOne == ReturnT(IntLiteral)
ReturnString == ReturnT(StringLiteral)
Shapes ==
    {ReturnOne, ReturnString, AssignT("v", IntLiteral),
     BranchT(<<ReturnOne>>, <<>>), BranchT(<<>>, <<ReturnOne>>),
     BranchT(<<ReturnOne>>, <<ReturnOne>>),
     BranchT(<<BranchT(<<ReturnOne>>, <<ReturnOne>>)>>, <<ReturnOne>>),
     LoopT(<<ReturnOne>>), LoopT(<<BreakT>>), LoopT(<<LoopT(<<BreakT>>)>>)}
Bodies == SeqsUpTo(Shapes, MaxBodyLen)

\* def f() [-> Int] body end, called from main or not
ReturnProgram(body, ret, called) ==
    [kind |-> "def", body |-> body, ret |-> ret, called |-> called, classes |-> <<>>,
     methods |-> <<MethodT("f", <<FunctionT(<<>>, body, ret)>>)>>,
     main |-> IF called THEN <<CallT("f", <<>>)>> ELSE <<>>]

\* class P new() body end end, constructed from main or not
ConstructorProgram(body, called) ==
    [kind |-> "new", body |-> body, ret |-> "", called |-> called, methods |-> <<>>,
     classes |-> <<ClassT("P", <<FunctionT(<<>>, body, "")>>)>>,
     main |-> IF called THEN <<CallT("P", <<>>)>> ELSE <<>>]

\* def h() end;  def g(x) h() end, with g(1) in main or not
ReferringProgram(called) ==
    [kind |-> "refer", body |-> <<CallT("h", <<>>)>>, ret |-> "", called |-> called,
     classes |-> <<>>,
     methods |-> <<MethodT("h", <<FunctionT(<<>>, <<>>, "")>>),
                   MethodT("g", <<FunctionT(<<Arg("x", "")>>, <<CallT("h", <<>>)>>, "")>>)>>,
     main |-> IF called THEN <<CallT("g", <<IntLiteral>>)>> ELSE <<>>]

Programs ==
    CallPrograms
        \cup {ReferringProgram(c) : c \in BOOLEAN}
        \cup {ReturnProgram(b, r, c) : b \in Bodies, r \in {"", "Int"}, c \in BOOLEAN}
        \cup {ConstructorProgram(b, c) : b \in Bodies, c \in BOOLEAN}

LexIdle ==
    /\ source = <<>>
    /\ position = 0
    /\ current = ""
    /\ tokens = <<>>
    /\ lexState = "idle"

\* lekvar.verify(module, builtin) up to module.verify()
VerInit ==
    /\ LexIdle
    /\ OpIdle
    /\ ResIdle
    /\ ParIdle
    /\ CallIdle
    /\ program \in Programs
    /\ LET b == BuildBuiltins(<<>>)
           m == BuildModule(b.h, program)
       IN /\ heap = m.h
          /\ builtins = b.id
          /\ stack = <<VerifyF(m.id)>>
    /\ scope = None
    /\ softStack = <<>>
    /\ retval = None
    /\ raised = <<>>
    /\ outcome = "run"

VerNext ==
    \/ VerifyModule \/ VerifyFunction \/ VerifyFunctionType \/ VerifyDependentType
    \/ VerifyClass \/ VerifyMethod \/ VerifyVariable \/ VerifyLiteral
    \/ VerifyReference \/ Each \/ ScopedExit \/ SoftEnter \/ SoftExit \/ VerifySelf
    \/ VerifyLoop \/ VerifyBreak \/ VerifyBranch \/ VerifyReturn \/ Returned
    \/ VerifyAssignment \/ Assigned \/ VerifyCall \/ Arguments \/ Called
    \/ ResolveCallReference \/ ResolveCallMethod \/ OverloadTry \/ OverloadMatched
    \/ OverloadDecide \/ ResolveCallFunction \/ Template \/ ResolveCallClass
    \/ Constructed \/ Verified \/ VerifyAgain

SpecVerify == VerInit /\ [][VerNext]_vars

-----------------------------------------------------------------------------
(***************************************************************************)
(* resolveReference, one turn of its loop at a time                        *)
(*                                                                         *)
(* The objects are a chain of nested modules under the builtins.  The      *)
(* innermost module holds a method m with one overload, a function s       *)
(* (a child of the module, so static) and a class C with a method k; the   *)
(* builtins hold Int, String and, in some of the trees, a function g.      *)
(* Every module, the class and the builtins declare the name a or do not.  *)
(***************************************************************************)

MaxDepth == 2

Trees ==
    {[depth |-> d, declares |-> dc, class |-> c, builtin_function |-> g, argument |-> a] :
        d \in 1..MaxDepth, dc \in [0..MaxDepth -> BOOLEAN], c \in BOOLEAN,
        g \in BOOLEAN, a \in {"a", "z"}}

\* the declaration of a, where there is one
Declaration(h, declared) ==
    CASE IsHeap(h) ->
    IF declared
    THEN Let(NewMethod(h, "a", <<>>), LAMBDA m : [h |-> m.h, ids |-> <<m.id>>])
    ELSE [h |-> h, ids |-> <<>>]

\* def name(argument) end as a method of one overload
OneMethod(h, name, argument) ==
    CASE IsHeap(h) ->
    Let(NewVariable(h, argument, None), LAMBDA v :
    Let(NewFunction(v.h, "", <<v.id>>, <<>>, None, FALSE), LAMBDA f :
        NewMethod(f.h, name, <<f.id>>)))

RECURSIVE BuildLevel(_, _, _)
BuildLevel(h, tree, level) ==
    CASE IsHeap(h) ->
    Let(Declaration(h, tree.declares[level]), LAMBDA a :
    Let(IF level = tree.depth
        THEN Let(OneMethod(a.h, "m", tree.argument), LAMBDA m :
             Let(NewFunction(m.h, "s", <<>>, <<>>, None, FALSE), LAMBDA s :
             Let(Declaration(s.h, tree.class), LAMBDA ca :
             Let(OneMethod(ca.h, "k", "z"), LAMBDA k :
             Let(NewClass(k.h, "C", None, ca.ids \o <<k.id>>), LAMBDA c :
                 [h |-> c.h, ids |-> <<m.id, s.id, c.id>>])))))
        ELSE Let(BuildLevel(a.h, tree, level + 1), LAMBDA inner :
                 [h |-> inner.h, ids |-> <<inner.id>>]), LAMBDA below :
    Let(NewFunction(below.h, "main", <<>>, <<>>, None, FALSE), LAMBDA main :
        NewModule(main.h, IF level = 1 THEN "main" ELSE "inner",
                  a.ids \o below.ids, main.id))))

BuildTree(tree) ==
    Let(NewClass(<<>>, "Int", None, <<>>), LAMBDA i :
    Let(NewClass(i.h, "String", None, <<>>), LAMBDA s :
    Let(Declaration(s.h, tree.declares[0]), LAMBDA a :
    Let(IF tree.builtin_function
        THEN Let(NewFunction(a.h, "g", <<>>, <<>>, None, FALSE), LAMBDA g :
                 [h |-> g.h, ids |-> <<g.id>>])
        ELSE [h |-> a.h, ids |-> <<>>], LAMBDA g :
    Let(NewFunction(g.h, "main", <<>>, <<>>, None, FALSE), LAMBDA main :
    Let(NewModule(main.h, "_builtins", <<i.id, s.id>> \o a.ids \o g.ids, main.id),
        LAMBDA b : [h |-> BuildLevel(b.h, tree, 1).h, builtins |-> b.id]))))))

\* the objects State.scoped is entered with
IsScope(h, n) == h[n].k \in {"Module", "Function", "FunctionType", "Method", "Class"}

ResInit ==
    /\ LexIdle
    /\ OpIdle
    /\ ParIdle
    /\ CallIdle
    /\ \E tree \in Trees :
        LET t == BuildTree(tree)
        IN /\ heap = t.h
           /\ builtins = t.builtins
    /\ scope \in {n \in 1..Len(heap) : IsScope(heap, n)}
    /\ softStack = <<>>
    /\ stack = <<>>
    /\ retval = None
    /\ raised = <<>>
    /\ outcome = "resolve"
    /\ program = <<>>
    /\ rReference \in {"a", "b", "z"}
    /\ rExclude \in {None} \cup {n \in 1..Len(heap) :
                                    heap[n].k \in {"Method", "Variable"}
                                        /\ heap[n].name = rReference}
    /\ rScope = scope
    /\ rFound = <<>>
    /\ rVisited = <<>>
    /\ rResult = [error |-> "", message |-> "", value |-> None]
    /\ resState = "walk"

\* one turn of while True
ResolveWalk ==
    /\ resState = "walk"
    /\ rFound' = rFound \o Consulted(heap, rScope, rReference)
    /\ rVisited' = Append(rVisited, <<rScope, LocalContext(heap, rScope)>>)
    /\ IF rScope = builtins
       THEN resState' = "filter" /\ rScope' = rScope
       ELSE resState' = "walk" /\ rScope' = WalkUp(heap, builtins, rScope)
    /\ UNCHANGED <<rReference, rExclude, rResult, verVars, lexVars, callVars, opVars, parVars>>

\* after the loop
ResolveFinish ==
    /\ resState = "filter"
    /\ rResult' = Resolution(rFound, rExclude)
    /\ resState' = "done"
    /\ UNCHANGED <<rReference, rExclude, rScope, rFound, rVisited, verVars, lexVars, callVars,
                   opVars, parVars>>

ResNext == ResolveWalk \/ ResolveFinish

SpecResolve == ResInit /\ [][ResNext]_vars

-----------------------------------------------------------------------------
(***************************************************************************)
(* Parser.parseMethodBody  (compiler/jam/parser.py)                        *)
(*                                                                         *)
(* parseMethodArguments has read the arguments and their default values;   *)
(* parseMethodBody reads the instructions up to end, makes the overload    *)
(* of all the arguments, goes through the default values from the last to  *)
(* the first, and makes the Method.                                        *)
(***************************************************************************)

MaxArguments == 3

ArgumentNames == <<"a", "b", "c", "d", "e">>

\* what parseMethodArguments and parseTypeSig have read
Declarations ==
    {[defaults |-> d, type |-> t, ret |-> r, body |-> b] :
        d \in SeqsUpTo(BOOLEAN, MaxArguments), t \in {"", "Int"}, r \in {"", "Int"},
        b \in {<<>>, <<ReturnOne>>}}

\* parseVariable for every argument, and parseValue for every default value
RECURSIVE ParsedArguments(_, _, _)
ParsedArguments(h, declaration, i) ==
    CASE IsHeap(h) ->
    IF i > Len(declaration.defaults) THEN [h |-> h, arguments |-> <<>>, default_values |-> <<>>]
    ELSE Let(BuildType(h, declaration.type), LAMBDA t :
         Let(NewVariable(t.h, ArgumentNames[i], t.id), LAMBDA v :
         Let(IF declaration.defaults[i] THEN BuildValue(v.h, IntLiteral)
             ELSE [h |-> v.h, id |-> None], LAMBDA d :
         Let(ParsedArguments(d.h, declaration, i + 1), LAMBDA r :
             [h |-> r.h, arguments |-> <<v.id>> \o r.arguments,
              default_values |-> <<d.id>> \o r.default_values]))))

ParInit ==
    /\ LexIdle
    /\ CallIdle
    /\ OpIdle
    /\ ResIdle
    /\ program \in Declarations
    /\ LET a == ParsedArguments(<<>>, program, 1)
           r == BuildType(a.h, program.ret)
       IN /\ heap = r.h
          /\ pArguments = a.arguments
          /\ pDefaultValues = a.default_values
          /\ pReturnType = r.id
    /\ pInstructions = <<>>
    /\ pOverloads = <<>>
    /\ pIndex = 0
    /\ pInDefaults = TRUE
    /\ pMethod = None
    /\ parseState = "body"
    /\ builtins = None
    /\ scope = None
    /\ softStack = <<>>
    /\ stack = <<>>
    /\ retval = None
    /\ raised = <<>>
    /\ outcome = "parse"

\* list[index] and list[:index] of Python for a negative index
Item(list, index) == list[Len(list) + index + 1]
Prefix(list, index) == SubSeq(list, 1, Len(list) + index)

\* Variable.copy (variable.py): a new Variable of the same name and type
\* object
CopyVariable(h, n) == NewVariable(h, h[n].name, h[n].type)

\* [arg.copy() for arg in arguments[:index]]
RECURSIVE CopyVariables(_, _)
CopyVariables(h, variables) ==
    CASE IsHeap(h) ->
    IF variables = <<>> THEN [h |-> h, ids |-> <<>>]
    ELSE Let(CopyVariable(h, Head(variables)), LAMBDA c :
         Let(CopyVariables(c.h, Tail(variables)), LAMBDA r :
             [h |-> r.h, ids |-> <<c.id>> \o r.ids]))

\* a callee that is always the overload of all the arguments
PreviousOverload_First(overloads) == overloads[1]

\* overloads[-1]
PreviousOverload(overloads) == overloads[Len(overloads)]

\* the overload that calls the previous overload with the default value
DefaultOverload(h, overloads, index) ==
    Let(CopyVariables(h, Prefix(pArguments, index)), LAMBDA args :
    Let(NewCall(args.h, PreviousOverload(overloads),
                args.ids \o <<Item(pDefaultValues, index)>>), LAMBDA call :
        NewFunction(call.h, "", args.ids, <<call.id>>, pReturnType, FALSE)))

\* the loop over parseLine up to end, and the overload of all the arguments
ParseInstructions ==
    /\ parseState = "body"
    /\ LET i == BuildInstructions(heap, program.body)
           f == NewFunction(i.h, "", pArguments, i.ids, pReturnType, FALSE)
       IN /\ heap' = f.h
          /\ pInstructions' = i.ids
          /\ pOverloads' = <<f.id>>
    /\ parseState' = "defaults"
    /\ UNCHANGED <<pArguments, pDefaultValues, pReturnType, pIndex, pInDefaults, pMethod,
                   builtins, scope, softStack, stack, retval, raised, outcome, program,
                   lexVars, callVars, opVars, resVars>>

\* one turn of for index, value in enumerate(reversed(default_values))
ParseDefault ==
    /\ parseState = "defaults"
    /\ pIndex < Len(pDefaultValues)
    /\ LET index == -pIndex - 1
           value == Item(pDefaultValues, index)
           f == DefaultOverload(heap, pOverloads, index)
       IN IF pInDefaults
          THEN IF value = None
               THEN /\ pInDefaults' = FALSE
                    /\ UNCHANGED <<heap, pOverloads, parseState>>
               ELSE /\ heap' = f.h
                    /\ pOverloads' = Append(pOverloads, f.id)
                    /\ UNCHANGED <<pInDefaults, parseState>>
          ELSE /\ parseState' = IF value # None THEN "SyntaxError" ELSE parseState
               /\ UNCHANGED <<heap, pOverloads, pInDefaults>>
    /\ pIndex' = pIndex + 1
    /\ UNCHANGED <<pArguments, pDefaultValues, pReturnType, pInstructions, pMethod,
                   builtins, scope, softStack, stack, retval, raised, outcome, program,
                   lexVars, callVars, opVars, resVars>>

\* return lekvar.Method(name, overloads)
ParseMethod ==
    /\ parseState = "defaults"
    /\ pIndex = Len(pDefaultValues)
    /\ LET m == NewMethod(heap, "f", pOverloads)
       IN /\ heap' = m.h
          /\ pMethod' = m.id
    /\ parseState' = "done"
    /\ UNCHANGED <<pArguments, pDefaultValues, pReturnType, pInstructions, pOverloads,
                   pIndex, pInDefaults, builtins, scope, softStack, stack, retval, raised,
                   outcome, program, lexVars, callVars, opVars, resVars>>

ParNext == ParseInstructions \/ ParseDefault \/ ParseMethod

SpecParse == ParInit /\ [][ParNext]_vars

-----------------------------------------------------------------------------
(***************************************************************************)
(* Method: construction, addOverload and assimilate, called one at a time  *)
(* on a pool of Functions.  As in the parser, the Function given to the    *)
(* constructor or to addOverload is one that no Method holds yet;          *)
(* assimilate hands on the overloads of another Method.                    *)
(***************************************************************************)

MaxFunctions == 3
MaxMethods == 2
MaxAdded == 4

RECURSIVE FunctionPool(_, _)
FunctionPool(h, n) ==
    CASE IsHeap(h) ->
    IF n = 0 THEN h
    ELSE FunctionPool(NewFunction(h, "", <<>>, <<>>, None, FALSE).h, n - 1)

Functions(h) == {n \in 1..Len(h) : h[n].k = "Function"}
Methods(h) == {n \in 1..Len(h) : h[n].k = "Method"}
Unbound(h) == {n \in Functions(h) : h[n].bound_context = None}
\* list(method.overload_context): the values of the dict in its order
OverloadsOf(h, m) == h[h[m].overload_context].nodes

\* the lists of distinct Functions of a set, up to a length
RECURSIVE Lists(_, _)
Lists(S, n) ==
    IF n = 0 THEN {<<>>}
    ELSE Lists(S, n - 1)
            \cup {Append(l, f) : l \in Lists(S, n - 1), f \in S}

Distinct(l) == \A i, j \in 1..Len(l) : l[i] = l[j] => i = j

\* the record of what a Method was given
Given(m, fs) ==
    [n \in (DOMAIN added) \cup {m} |->
        IF n \in DOMAIN added THEN (IF n = m THEN added[n] \o fs ELSE added[n]) ELSE fs]

\* Method.assimilate: for overload in other.overload_context: addOverload.
\* The loop runs over the dict of other: with other = self the first
\* addOverload changes the size of the dict under the iterator, and the
\* next turn raises RuntimeError.
Assimilate(h, m, other) ==
    CASE IsHeap(h) ->
    IF m = other
    THEN IF OverloadsOf(h, m) = <<>> THEN [h |-> h, error |-> "", taken |-> <<>>]
         ELSE [h |-> AddOverload(h, m, OverloadsOf(h, m)[1]), error |-> "RuntimeError",
               taken |-> <<OverloadsOf(h, m)[1]>>]
    ELSE [h |-> AddOverloads(h, m, OverloadsOf(h, other)), error |-> "",
          taken |-> OverloadsOf(h, other)]

MetInit ==
    /\ LexIdle
    /\ ResIdle
    /\ ParIdle
    /\ CallIdle
    /\ heap = FunctionPool(<<>>, MaxFunctions)
    /\ builtins = None
    /\ scope = None
    /\ softStack = <<>>
    /\ stack = <<>>
    /\ retval = None
    /\ raised = <<>>
    /\ outcome = "method"
    /\ program = <<>>
    /\ added = <<>>
    /\ opState = "run"
    /\ snapshot = <<>>
    /\ compared = <<>>
    /\ compatible = <<>>

\* Method(name, overloads)
MethodNew ==
    /\ opState = "run"
    /\ Cardinality(Methods(heap)) < MaxMethods
    /\ \E fs \in {l \in Lists(Unbound(heap), MaxFunctions) : Distinct(l)} :
        \E m \in {NewMethod(heap, "f", fs)} :
            /\ heap' = m.h
            /\ added' = Given(m.id, fs)
    /\ UNCHANGED <<opState, snapshot, compared, compatible, builtins, scope, softStack, stack,
                   retval, raised, outcome, program, lexVars, callVars, resVars, parVars>>

\* method.addOverload(overload)
MethodAddOverload ==
    /\ opState = "run"
    /\ \E m \in Methods(heap), f \in Unbound(heap) :
        /\ Len(OverloadsOf(heap, m)) < MaxAdded
        /\ heap' = AddOverload(heap, m, f)
        /\ added' = Given(m, <<f>>)
    /\ UNCHANGED <<opState, snapshot, compared, compatible, builtins, scope, softStack, stack,
                   retval, raised, outcome, program, lexVars, callVars, resVars, parVars>>

\* method.assimilate(other)
MethodAssimilate ==
    /\ opState = "run"
    /\ \E m \in Methods(heap), other \in Methods(heap) :
        /\ Len(OverloadsOf(heap, m)) + Len(OverloadsOf(heap, other)) <= MaxAdded
        /\ \E r \in {Assimilate(heap, m, other)} :
            /\ heap' = r.h
            /\ added' = Given(m, r.taken)
            /\ opState' = IF r.error = "" THEN "run" ELSE r.error
    /\ UNCHANGED <<snapshot, compared, compatible, builtins, scope, softStack, stack, retval,
                   raised, outcome, program, lexVars, callVars, resVars, parVars>>

MetNext == MethodNew \/ MethodAddOverload \/ MethodAssimilate

SpecMethod == MetInit /\ [][MetNext]_vars

-----------------------------------------------------------------------------
(***************************************************************************)
(* FunctionType.checkCompatibility on two function types                   *)
(***************************************************************************)

MaxArity == 3

\* the type of an argument: a class of the builtins, or "" for an argument
\* without a type, which Function.__init__ gives a DependentType
TypeNames == {"Int", "String", ""}
Signatures == [args : SeqsUpTo(TypeNames, MaxArity), ret : TypeNames]

TypeNamed(h, name) == CHOOSE n \in 1..Len(h) : h[n].k = "Class" /\ h[n].name = name

RECURSIVE BuildTypes(_, _)
BuildTypes(h, names) ==
    CASE IsHeap(h) ->
    IF names = <<>> THEN [h |-> h, ids |-> <<>>]
    ELSE Let(IF Head(names) = "" THEN NewDependentType(h, <<>>)
             ELSE [h |-> h, id |-> TypeNamed(h, Head(names))], LAMBDA t :
         Let(BuildTypes(t.h, Tail(names)), LAMBDA r :
             [h |-> r.h, ids |-> <<t.id>> \o r.ids]))

\* FunctionType("", arguments, return_type)
BuildFunctionType(h, sig) ==
    Let(BuildTypes(h, sig.args), LAMBDA a :
        NewFunctionType(a.h, a.ids,
                        IF sig.ret = "" THEN None ELSE TypeNamed(a.h, sig.ret)))

CmpInit ==
    /\ LexIdle
    /\ ResIdle
    /\ ParIdle
    /\ CallIdle
    /\ \E s \in Signatures, o \in Signatures :
        \E b \in {BuildBuiltins(<<>>)} :
        \E self \in {BuildFunctionType(b.h, s)} :
        \E other \in {BuildFunctionType(self.h, o)} :
            /\ heap = other.h
            /\ builtins = b.id
            /\ compared = <<self.id, other.id>>
    /\ scope = None
    /\ softStack = <<>>
    /\ stack = <<>>
    /\ retval = None
    /\ raised = <<>>
    /\ outcome = "compare"
    /\ program = <<>>
    /\ added = <<>>
    /\ opState = "run"
    /\ snapshot = <<>>
    /\ compatible = <<>>

\* self.checkCompatibility(other)
CheckCompatibilityCall ==
    /\ opState = "run"
    /\ compared # <<>>
    /\ compatible = <<>>
    /\ \E r \in {CheckCompatibility(heap, compared[1], compared[2])} :
        /\ heap' = r.h
        /\ compatible' = <<r.ok>>
    /\ UNCHANGED <<added, opState, snapshot, compared, builtins, scope, softStack, stack,
                   retval, raised, outcome, program, lexVars, callVars, resVars, parVars>>

CmpNext == CheckCompatibilityCall

SpecCompatibility == CmpInit /\ [][CmpNext]_vars

-----------------------------------------------------------------------------
(***************************************************************************)
(* PARSER: expressions  (compiler/jam/parser.py)                           *)
(*                                                                         *)
(* A token is a record of its type (the name of the member of Tokens the   *)
(* parser compares it with) and its data.  The IR objects the parser       *)
(* builds are terms.                                                       *)
(***************************************************************************)

\* the tiers from the tightest to the loosest
BINARY_OPERATIONS_Reversed == <<
    {"multiplication", "division", "integer_division"},
    {"addition", "subtraction"},
    {"equality", "inequality", "smaller_than", "smaller_than_or_equal_to",
     "greater_than", "greater_than_or_equal_to"}
>>

\* BINARY_OPERATIONS: from the loosest tier to the tightest
BINARY_OPERATIONS == <<
    {"equality", "inequality", "smaller_than", "smaller_than_or_equal_to",
     "greater_than", "greater_than_or_equal_to"},
    {"addition", "subtraction"},
    {"multiplication", "division", "integer_division"}
>>

BINARY_OPERATION_TOKENS == UNION {BINARY_OPERATIONS[i] : i \in 1..Len(BINARY_OPERATIONS)}

UNARY_OPERATION_TOKENS == {"addition", "subtraction", "logical_negation"}

\* the token of a type of the direct map, with its spelling as data
Token(type) ==
    [type |-> type,
     data |-> DIRECT_MAP[CHOOSE i \in 1..Len(DIRECT_MAP) : DIRECT_MAP[i][2] = type][1]]

\* lekvar.Call(lekvar.Attribute(lhs, operation.data), [rhs], None, operation)
OperationCall(lhs, operation, values) ==
    [t |-> "Call",
     called |-> [t |-> "Attribute", value |-> lhs, reference |-> operation.data],
     values |-> values]

\* an accumulation from right to left
RECURSIVE Accumulate_RightToLeft(_, _)
Accumulate_RightToLeft(operation_values, operation_operations) ==
    IF operation_operations = <<>> THEN operation_values[1]
    ELSE OperationCall(operation_values[1], operation_operations[1],
                       <<Accumulate_RightToLeft(Tail(operation_values),
                                                Tail(operation_operations))>>)

\* the last loop of parseBinaryOperation: the operations from left to
\* right, each on what the ones before it gave
RECURSIVE AccumulateFrom(_, _, _, _)
AccumulateFrom(lhs, operation_values, operation_operations, index) ==
    IF index >= Len(operation_operations) THEN lhs
    ELSE AccumulateFrom(OperationCall(lhs, operation_operations[index + 1],
                                      <<operation_values[index + 2]>>),
                        operation_values, operation_operations, index + 1)

Accumulate(operation_values, operation_operations) ==
    AccumulateFrom(operation_values[1], operation_values, operation_operations, 0)

InternalError == [t |-> "InternalError"]

\* Parser.parseBinaryOperation.  OperationParts is its first loop from the
\* turn index on, with the call after the loop: operation_values and
\* operation_operations.
RECURSIVE ParseBinaryOperation(_, _, _)
RECURSIVE OperationParts(_, _, _, _, _)
ParseBinaryOperation(values, operations, operation_index) ==
    IF Len(values) = 1 THEN values[1]
    ELSE IF operation_index = Len(BINARY_OPERATIONS) THEN InternalError
    ELSE Let(OperationParts(values, operations, operation_index, 0, 0), LAMBDA parts :
             IF \E i \in 1..Len(parts.operation_values) :
                    parts.operation_values[i] = InternalError
             THEN InternalError
             ELSE Accumulate(parts.operation_values, parts.operation_operations))

OperationParts(values, operations, operation_index, index, previous_index) ==
    IF index = Len(operations)
    THEN [operation_values |->
              <<ParseBinaryOperation(Slice(values, previous_index, Len(values)),
                                     Slice(operations, previous_index, Len(operations)),
                                     operation_index + 1)>>,
          operation_operations |-> <<>>]
    ELSE IF operations[index + 1].type \in BINARY_OPERATIONS[operation_index + 1]
    THEN Let(OperationParts(values, operations, operation_index, index + 1, index + 1),
             LAMBDA rest :
                 [operation_values |->
                      <<ParseBinaryOperation(Slice(values, previous_index, index + 1),
                                             Slice(operations, previous_index, index),
                                             operation_index + 1)>>
                          \o rest.operation_values,
                  operation_operations |->
                      <<operations[index + 1]>> \o rest.operation_operations])
    ELSE OperationParts(values, operations, operation_index, index + 1, previous_index)

MaxOperations == 3

\* the operands v0, v1, ... : references
Operand(i) == Ref(<<"a", "b", "c", "d", "e", "f">>[i])
Operands(n) == [i \in 1..n |-> Operand(i)]

OperationTokens == {Token(type) : type \in BINARY_OPERATION_TOKENS}

\* the lists parseValue hands to parseBinaryOperation
OprInit ==
    /\ LexIdle
    /\ VerIdle
    /\ ResIdle
    /\ ParIdle
    /\ OpIdle
    /\ pInput = <<>>
    /\ pTokens = <<>>
    /\ pBuffered = 0
    /\ pOperations \in SeqsUpTo(OperationTokens, MaxOperations)
    /\ pValues = Operands(Len(pOperations) + 1)
    /\ pValue = <<>>
    /\ pChildren = <<>>
    /\ pDeclared = <<>>
    /\ callState = "parseBinaryOperation"

\* return self.parseBinaryOperation(values, operations)
ParseBinaryOperationCall ==
    /\ callState = "parseBinaryOperation"
    /\ \E r \in {ParseBinaryOperation(pValues, pOperations, 0)} :
        /\ pValue' = <<r>>
        /\ callState' = IF r = InternalError THEN "InternalError" ELSE "done"
    /\ UNCHANGED <<pInput, pTokens, pBuffered, pValues, pOperations, pChildren, pDeclared,
                   lexVars, verVars, resVars, parVars, opVars>>

OprNext == ParseBinaryOperationCall

SpecOperations == OprInit /\ [][OprNext]_vars

\* Parser.strip on a stream of tokens: what is left of the stream (its head
\* is the token strip returns, None at the end of the stream)
RECURSIVE Strip(_, _)
Strip(toks, types) ==
    IF toks # <<>> /\ Head(toks).type \in types THEN Strip(Tail(toks), types) ELSE toks

Parsed(value, rest) == [value |-> value, rest |-> rest, error |-> ""]
Failed(error, rest) == [value |-> <<>>, rest |-> rest, error |-> error]

\* Parser.parseSingleValue for an identifier, the end of the stream and a
\* token no value starts with (the tokens of the streams given here start
\* no other kind of value)
ParseSingleValue(toks) ==
    Let(Strip(toks, {"comment"}), LAMBDA t :
        IF t = <<>> THEN Failed("SyntaxError", t)
        ELSE IF Head(t).type = "identifier" THEN Parsed(Ref(Head(t).data), Tail(t))
        ELSE Failed("SyntaxError", t))

\* the first loop of parseUnaryOperation: operations.insert(0, self.next())
RECURSIVE PrefixOperations(_, _)
PrefixOperations(toks, operations) ==
    Let(Strip(toks, {"comment"}), LAMBDA t :
        IF t # <<>> /\ Head(t).type \in UNARY_OPERATION_TOKENS
        THEN PrefixOperations(Tail(t), <<Head(t)>> \o operations)
        ELSE [rest |-> t, operations |-> operations])

\* for operation in operations: value = Call(Attribute(value, operation.data), [])
RECURSIVE ApplyPrefix(_, _)
ApplyPrefix(value, operations) ==
    IF operations = <<>> THEN value
    ELSE ApplyPrefix(OperationCall(value, Head(operations), <<>>), Tail(operations))

\* the loop of the postfix operations of parseUnaryOperation, with
\* parseAttribute for a dot: it strips the comments and ends at a token
\* that is no (, . or as (no stream given here has a ( or an as)
RECURSIVE PostfixOperations(_, _)
PostfixOperations(value, toks) ==
    Let(Strip(toks, {"comment"}), LAMBDA t :
        IF t # <<>> /\ Head(t).type = "dot"
        THEN IF Tail(t) = <<>> THEN Failed("SyntaxError", <<>>)
             ELSE IF t[2].type # "identifier" THEN Failed("SyntaxError", Tail(Tail(t)))
             ELSE PostfixOperations([t |-> "Attribute", value |-> value,
                                     reference |-> t[2].data], Tail(Tail(t)))
        ELSE Parsed(value, t))

\* Parser.parseUnaryOperation
ParseUnaryOperation(toks) ==
    Let(PrefixOperations(toks, <<>>), LAMBDA p :
    Let(ParseSingleValue(p.rest), LAMBDA v :
        IF v.error # "" THEN v
        ELSE PostfixOperations(ApplyPrefix(v.value, p.operations), v.rest)))

\* the loop of parseValue
RECURSIVE ParseOperations(_, _, _)
ParseOperations(toks, values, operations) ==
    Let(Strip(toks, {"comment"}), LAMBDA t :
        IF t # <<>> /\ Head(t).type \in BINARY_OPERATION_TOKENS
        THEN Let(ParseUnaryOperation(Tail(t)), LAMBDA u :
                 IF u.error # ""
                 THEN [values |-> values, operations |-> operations, rest |-> u.rest,
                       error |-> u.error]
                 ELSE ParseOperations(u.rest, Append(values, u.value),
                                      Append(operations, Head(t))))
        ELSE [values |-> values, operations |-> operations, rest |-> t, error |-> ""])

\* Parser.parseValue
ParseValue(toks) ==
    Let(ParseUnaryOperation(toks), LAMBDA u :
        IF u.error # ""
        THEN [values |-> <<>>, operations |-> <<>>, rest |-> u.rest, error |-> u.error,
              value |-> <<>>]
        ELSE Let(ParseOperations(u.rest, <<u.value>>, <<>>), LAMBDA l :
                 [values |-> l.values, operations |-> l.operations, rest |-> l.rest,
                  error |-> l.error,
                  value |-> IF l.error # "" THEN <<>>
                            ELSE <<ParseBinaryOperation(l.values, l.operations, 0)>>]))

MaxTokens == 5

\* the data of a token is the sequence of its characters
Identifier(name) == [type |-> "identifier", data |-> <<name>>]
CommentToken == [type |-> "comment", data |-> <<>>]

\* the tokens of the streams parseValue is called on
ValueTokens ==
    {Identifier("a"), Identifier("b"), CommentToken, Token("addition"),
     Token("multiplication"), Token("mod"), Token("equality")}

ValInit ==
    /\ LexIdle
    /\ VerIdle
    /\ ResIdle
    /\ ParIdle
    /\ OpIdle
    /\ pInput \in SeqsUpTo(ValueTokens, MaxTokens)
    /\ pTokens = pInput
    /\ pBuffered = 0
    /\ pValues = <<>>
    /\ pOperations = <<>>
    /\ pValue = <<>>
    /\ pChildren = <<>>
    /\ pDeclared = <<>>
    /\ callState = "parseValue"

\* self.parseValue().  On these streams every path ends, or raises, after a
\* lookAhead() that follows the last next(): one token is left buffered.
ParseValueCall ==
    /\ callState = "parseValue"
    /\ \E r \in {ParseValue(pTokens)} :
        /\ pTokens' = r.rest
        /\ pBuffered' = 1
        /\ pValues' = r.values
        /\ pOperations' = r.operations
        /\ pValue' = r.value
        /\ callState' = IF r.error = "" THEN "done" ELSE r.error
    /\ UNCHANGED <<pInput, pChildren, pDeclared, lexVars, verVars, resVars, parVars, opVars>>

ValNext == ParseValueCall

SpecValue == ValInit /\ [][ValNext]_vars

-----------------------------------------------------------------------------
(***************************************************************************)
(* PARSER: the declarations of a scope (parser.py 99-144)                  *)
(***************************************************************************)

MaxDeclarations == 4

\* the names and the kinds of the declarations handed to addChild
ChildNames == {"f", "g"}
DeclarationKinds == {"Method", "Class"}

\* name in children
HasChild(children, name) == \E i \in 1..Len(children) : children[i].name = name

\* the place of the key name in the dict
ChildAt(children, name) == CHOOSE i \in 1..Len(children) : children[i].name = name

\* children[name] = value: a key the dict has keeps its place
SetChild(children, name, value) ==
    IF HasChild(children, name)
    THEN [children EXCEPT ![ChildAt(children, name)].node = value]
    ELSE Append(children, [name |-> name, node |-> value])

\* Parser.addChild.  children[name].assimilate(value) is called on whatever
\* the dict holds under the name: only Method defines assimilate.
ParserAddChild(h, children, value) ==
    CASE IsHeap(h) ->
    IF h[value].k = "Method"
    THEN IF HasChild(children, h[value].name)
         THEN Let(children[ChildAt(children, h[value].name)].node, LAMBDA earlier :
                  IF h[earlier].k = "Method"
                  THEN Let(Assimilate(h, earlier, value), LAMBDA a :
                           [h |-> a.h, children |-> children, error |-> a.error])
                  ELSE [h |-> h, children |-> children, error |-> "AttributeError"])
         ELSE [h |-> h, children |-> SetChild(children, h[value].name, value), error |-> ""]
    ELSE [h |-> h, children |-> SetChild(children, h[value].name, value), error |-> ""]

\* what parseLine returns for a declaration: parseMethod gives a Method of
\* one overload (parser.py 480), parseClass a Class (parser.py 557)
ParsedDeclaration(h, name, kind) ==
    CASE IsHeap(h) ->
    IF kind = "Method"
    THEN Let(NewFunction(h, "", <<>>, <<>>, None, FALSE), LAMBDA f :
             NewMethod(f.h, name, <<f.id>>))
    ELSE NewClass(h, name, None, <<>>)

ChiInit ==
    /\ LexIdle
    /\ ResIdle
    /\ ParIdle
    /\ OpIdle
    /\ heap = <<>>
    /\ builtins = None
    /\ scope = None
    /\ softStack = <<>>
    /\ stack = <<>>
    /\ retval = None
    /\ raised = <<>>
    /\ outcome = "parse"
    /\ program = <<>>
    /\ pInput = <<>>
    /\ pTokens = <<>>
    /\ pBuffered = 0
    /\ pValues = <<>>
    /\ pOperations = <<>>
    /\ pValue = <<>>
    /\ pChildren = <<>>
    /\ pDeclared = <<>>
    /\ callState = "addChild"

\* one turn of the loop of parseModule for a line that is a BoundObject:
\* value = self.parseLine(); self.addChild(children, value)
AddChildCall ==
    /\ callState = "addChild"
    /\ Len(pDeclared) < MaxDeclarations
    /\ \E name \in ChildNames, kind \in DeclarationKinds :
        \E d \in {ParsedDeclaration(heap, name, kind)} :
            \E r \in {ParserAddChild(d.h, pChildren, d.id)} :
                /\ heap' = r.h
                /\ pChildren' = r.children
                /\ pDeclared' = Append(pDeclared,
                        [node |-> d.id,
                         overloads |-> IF kind = "Method" THEN OverloadsOf(d.h, d.id)
                                       ELSE <<>>])
                /\ callState' = IF r.error = "" THEN "addChild" ELSE r.error
    /\ UNCHANGED <<pInput, pTokens, pBuffered, pValues, pOperations, pValue, builtins, scope,
                   softStack, stack, retval, raised, outcome, program, lexVars, resVars,
                   parVars, opVars>>

ChiNext == AddChildCall

SpecChildren == ChiInit /\ [][ChiNext]_vars

(***************************************************************************)
(* PARSER: lines (parser.py 62-65, 146-175, 648-669, 714-721)              *)
(***************************************************************************)

MaxLineTokens == 7

\* the most tokens Parser.tokens holds when parseLine is called: the loop
\* of parseLine asks for 5 and the line before took at least one
MaxBuffered == 4

\* the token parseLine and parseAssignment compare with Tokens.equal
EqualToken == [type |-> "equal", data |-> <<"=">>]

\* Parser.lookAhead(num): the lexer is asked for the tokens missing up to
\* num, None at the end of the stream, and self.tokens[num - 1] is returned:
\* for num = 0 that is self.tokens[-1], the last token asked for so far.
\* The token is <<>> for None.
LookAhead(toks, buffered, num) ==
    Let(IF buffered < num THEN num ELSE buffered, LAMBDA n :
        [buffered |-> n,
         token |-> Let(IF num = 0 THEN n ELSE num, LAMBDA i :
                       IF i <= Len(toks) THEN <<toks[i]>> ELSE <<>>)])

\* for i in range(6): token = self.lookAhead(i); if token is not None and
\* token.type == Tokens.equal: return self.parseAssignment()
RECURSIVE FindEqual(_, _, _)
FindEqual(toks, buffered, i) ==
    IF i = 6 THEN [found |-> FALSE, buffered |-> buffered]
    ELSE Let(LookAhead(toks, buffered, i), LAMBDA l :
             IF l.token # <<>> /\ l.token[1].type = "equal"
             THEN [found |-> TRUE, buffered |-> l.buffered]
             ELSE FindEqual(toks, l.buffered, i + 1))

\* Parser.parseVariable with parseTypeSig
ParseVariable(toks) ==
    Let(IF toks # <<>> /\ Head(toks).type = "const_kwd" THEN Tail(toks) ELSE toks, LAMBDA t :
        IF toks = <<>> THEN Failed("AttributeError", toks)
        ELSE IF t = <<>> THEN Failed("SyntaxError", t)
        ELSE IF Head(t).type # "identifier" THEN Failed("SyntaxError", Tail(t))
        ELSE IF Tail(t) = <<>> THEN Failed("AttributeError", <<>>)
        ELSE IF t[2].type # "typeof"
        THEN Parsed([t |-> "Variable", name |-> Head(t).data, type |-> <<>>,
                     constant |-> Head(toks).type = "const_kwd"], Tail(t))
        ELSE Let(ParseValue(Tail(Tail(t))), LAMBDA v :
                 IF v.error # "" THEN Failed(v.error, v.rest)
                 ELSE Parsed([t |-> "Variable", name |-> Head(t).data, type |-> v.value,
                              constant |-> Head(toks).type = "const_kwd"], v.rest)))

\* Parser.parseAssignment
ParseAssignment(toks) ==
    Let(ParseVariable(toks), LAMBDA variable :
        IF variable.error # "" THEN variable
        ELSE IF variable.rest = <<>> THEN Failed("AttributeError", <<>>)
        ELSE IF Head(variable.rest).type # "equal"
        THEN Failed("AssertionError", Tail(variable.rest))
        ELSE Let(ParseValue(Tail(variable.rest)), LAMBDA v :
                 IF v.error # "" THEN Failed(v.error, v.rest)
                 ELSE Parsed([t |-> "Assignment", variable |-> variable.value,
                              value |-> v.value[1]], v.rest)))

\* Parser.parseLine for a stream that is at its end or starts with an
\* identifier or const; called names the function the line was handed to,
\* whether that function returned or raised
ParseLine(toks, buffered) ==
    Let(LookAhead(toks, buffered, 1), LAMBDA first :
        IF first.token = <<>>
        THEN [called |-> "", result |-> Parsed(None, toks), buffered |-> first.buffered]
        ELSE Let(IF first.token[1].type \in {"identifier", "const_kwd"}
                 THEN FindEqual(toks, first.buffered, 0)
                 ELSE [found |-> FALSE, buffered |-> first.buffered], LAMBDA f :
                 IF f.found
                 THEN [called |-> "parseAssignment", result |-> ParseAssignment(toks),
                       buffered |-> f.buffered]
                 ELSE [called |-> "parseValue",
                       result |-> Let(ParseValue(toks), LAMBDA v :
                                      IF v.error # "" THEN Failed(v.error, v.rest)
                                      ELSE Parsed(v.value[1], v.rest)),
                       buffered |-> f.buffered]))

\* the tokens of the lines
LineStarts == {Identifier("a"), Token("const_kwd")}
LineTokens == {Identifier("a"), Token("typeof"), Token("dot"), EqualToken}

LinInit ==
    /\ LexIdle
    /\ VerIdle
    /\ ResIdle
    /\ ParIdle
    /\ OpIdle
    /\ pInput \in {<<>>} \cup {<<first>> \o rest : first \in LineStarts,
                                rest \in SeqsUpTo(LineTokens, MaxLineTokens - 1)}
    /\ pTokens = pInput
    /\ pBuffered \in {b \in 0..MaxBuffered : b <= Len(pInput)}
    /\ pValues = <<>>
    /\ pOperations = <<>>
    /\ pValue = <<>>
    /\ pChildren = <<>>
    /\ pDeclared = <<>>
    /\ callState = "parseLine"

\* value = self.parseLine().  Of Parser.tokens there are left the tokens
\* asked for and not taken, and, when the function returns, at least the
\* one its last lookAhead() asked for.
ParseLineCall ==
    /\ callState = "parseLine"
    /\ \E r \in {ParseLine(pTokens, pBuffered)} :
        /\ pTokens' = r.result.rest
        /\ pBuffered' = Let(r.buffered - (Len(pTokens) - Len(r.result.rest)), LAMBDA left :
                            IF left < 0 THEN 0
                            ELSE IF left = 0 /\ r.result.error = "" THEN 1 ELSE left)
        /\ pValue' = <<[called |-> r.called, value |-> r.result.value]>>
        /\ callState' = IF r.result.error = "" THEN "done" ELSE r.result.error
    /\ UNCHANGED <<pInput, pValues, pOperations, pChildren, pDeclared, lexVars, verVars, resVars,
                   parVars, opVars>>

LinNext == ParseLineCall

SpecLine == LinInit /\ [][LinNext]_vars

(***************************************************************************)
(* DependentType.checkCompatibility, call after call on one DependentType  *)
(***************************************************************************)

\* the types of the calls: the classes, the function types and the
\* dependent types of the heap
PoolTypes(h) == {n \in 1..Len(h) : h[n].k \in {"Class", "FunctionType", "DependentType"}}

\* the DependentType the calls are made on: the first one made
CalledType(h) ==
    CHOOSE n \in 1..Len(h) :
        /\ h[n].k = "DependentType"
        /\ \A m \in 1..(n - 1) : h[m].k # "DependentType"

\* a DependentType of its own, a second one that stays without a target,
\* a class and the type of a function from the class to the class
DepInit ==
    /\ LexIdle
    /\ ResIdle
    /\ ParIdle
    /\ CallIdle
    /\ \E self \in {NewDependentType(<<>>, <<>>)} :
        \E other \in {NewDependentType(self.h, <<>>)} :
        \E int \in {NewClass(other.h, "Int", None, <<>>)} :
            heap = NewFunctionType(int.h, <<int.id>>, int.id).h
    /\ builtins = None
    /\ scope = None
    /\ softStack = <<>>
    /\ stack = <<>>
    /\ retval = None
    /\ raised = <<>>
    /\ outcome = "compare"
    /\ program = <<>>
    /\ added = <<>>
    /\ opState = "run"
    /\ snapshot = <<>>
    /\ compared = <<>>
    /\ compatible = <<>>

\* self.checkCompatibility(other) on the DependentType
DependentCheck ==
    /\ opState = "run"
    /\ \E other \in PoolTypes(heap) :
        \E r \in {CheckCompatibility(heap, CalledType(heap), other)} :
            /\ heap' = r.h
            /\ compared' = <<CalledType(heap), other>>
            /\ compatible' = <<r.ok>>
    /\ UNCHANGED <<added, opState, snapshot, builtins, scope, softStack, stack, retval, raised,
                   outcome, program, lexVars, callVars, resVars, parVars>>

\* arg.type.target = call.arguments[index] of Function.resolveCall: the
\* target is a type of the call, never the DependentType itself
DependentTarget ==
    /\ opState = "run"
    /\ heap[CalledType(heap)].target = None
    /\ \E target \in PoolTypes(heap) \ {CalledType(heap)} :
        heap' = [heap EXCEPT ![CalledType(heap)].target = target]
    /\ compared' = <<>>
    /\ compatible' = <<>>
    /\ UNCHANGED <<added, opState, snapshot, builtins, scope, softStack, stack, retval, raised,
                   outcome, program, lexVars, callVars, resVars, parVars>>

DepNext == DependentCheck \/ DependentTarget

SpecDependent == DepInit /\ [][DepNext]_vars

(***************************************************************************)
(* Assignment.verify on the assignments of main                            *)
(***************************************************************************)

MaxAssignments == 2

\* x = 1, x = "a", the same with the annotations x:Int and x:String, and
\* f = 1 for the name of a method
Assignments ==
    {TypedAssignT("x", type, v) : type \in {"", "Int", "String"},
                                   v \in {IntLiteral, StringLiteral}}
        \cup {AssignT("f", IntLiteral)}

\* def f() end, with the assignments in main
AssignProgram(body) ==
    [kind |-> "assign", body |-> body, ret |-> "", called |-> FALSE, classes |-> <<>>,
     methods |-> <<MethodT("f", <<FunctionT(<<>>, <<>>, "")>>)>>,
     main |-> body]

AssignPrograms == {AssignProgram(b) : b \in SeqsUpTo(Assignments, MaxAssignments)}

AsgInit ==
    /\ LexIdle
    /\ OpIdle
    /\ ResIdle
    /\ ParIdle
    /\ CallIdle
    /\ program \in AssignPrograms
    /\ LET b == BuildBuiltins(<<>>)
           m == BuildModule(b.h, program)
       IN /\ heap = m.h
          /\ builtins = b.id
          /\ stack = <<VerifyF(m.id)>>
    /\ scope = None
    /\ softStack = <<>>
    /\ retval = None
    /\ raised = <<>>
    /\ outcome = "run"

\* the steps of verify() these programs take
AsgNext ==
    \/ VerifyModule \/ VerifyFunction \/ VerifyFunctionType \/ VerifyClass \/ VerifyMethod
    \/ VerifyVariable \/ VerifyLiteral \/ VerifyReference \/ Each \/ ScopedExit \/ VerifySelf
    \/ VerifyAssignment \/ Assigned \/ Verified

SpecAssign == AsgInit /\ [][AsgNext]_vars

(***************************************************************************)
(* verify() called again on a module whose verify() has raised             *)
(***************************************************************************)

\* module.verify() is called once more after it has raised; opState keeps
\* the kind of the error of the first call
VerifyRetry ==
    /\ outcome \notin {"run", "ok"}
    /\ opState = "idle"
    /\ opState' = outcome
    /\ stack' = <<VerifyF(MainModule(heap))>>
    /\ outcome' = "run"
    /\ UNCHANGED <<heap, builtins, scope, softStack, retval, raised, program, added, snapshot,
                   compared, compatible, lexVars, callVars, resVars, parVars>>

RetNext == AsgNext \/ VerifyRetry

SpecRetry == AsgInit /\ [][RetNext]_vars

(***************************************************************************)
(* verify() on functions that call themselves and each other               *)
(***************************************************************************)

\* the calls f() and g() a body is made of
RecursiveBodies == SeqsUpTo({CallT("f", <<>>), CallT("g", <<>>)}, MaxBodyLen)

\* def f() fbody end;  def g() gbody end, with main
RecursiveProgram(fbody, gbody, main) ==
    [kind |-> "recursive", body |-> fbody, ret |-> "", called |-> main # <<>>,
     classes |-> <<>>,
     methods |-> <<MethodT("f", <<FunctionT(<<>>, fbody, "")>>),
                   MethodT("g", <<FunctionT(<<>>, gbody, "")>>)>>,
     main |-> main]

RecursivePrograms ==
    {RecursiveProgram(f, g, m) :
        f \in RecursiveBodies, g \in RecursiveBodies,
        m \in {<<>>, <<CallT("f", <<>>)>>, <<CallT("g", <<>>)>>}}

RecInit ==
    /\ LexIdle
    /\ OpIdle
    /\ ResIdle
    /\ ParIdle
    /\ CallIdle
    /\ program \in RecursivePrograms
    /\ LET b == BuildBuiltins(<<>>)
           m == BuildModule(b.h, program)
       IN /\ heap = m.h
          /\ builtins = b.id
          /\ stack = <<VerifyF(m.id)>>
    /\ scope = None
    /\ softStack = <<>>
    /\ retval = None
    /\ raised = <<>>
    /\ outcome = "run"

\* the steps of verify() these programs take
RecNext ==
    \/ VerifyModule \/ VerifyFunction \/ VerifyFunctionType \/ VerifyMethod
    \/ VerifyReference \/ Each \/ ScopedExit \/ VerifySelf \/ VerifyCall \/ Arguments
    \/ Called \/ ResolveCallReference \/ ResolveCallMethod \/ OverloadTry
    \/ OverloadMatched \/ OverloadDecide \/ ResolveCallFunction \/ Verified

\* verify() runs on: a call that can take a step takes it
SpecRecursion == RecInit /\ [][RecNext]_vars /\ WF_vars(RecNext)

(***************************************************************************)
(* Properties of the lexer                                                 *)
(***************************************************************************)

\* The input with blanks and comments removed: blanks between tokens, and
\* each comment from its "#" up to and including the newline that ends it.
\* The characters of a string literal, blank or "#" included, are kept.
RECURSIVE StripFrom(_, _, _)
StripFrom(src, i, mode) ==
    IF i > Len(src) THEN <<>>
    ELSE LET c == src[i] IN
         CASE mode = "code" ->
                IF c \in WHITESPACE THEN StripFrom(src, i + 1, "code")
                ELSE IF c = COMMENT_CHAR THEN StripFrom(src, i + 1, "comment")
                ELSE IF c = FORMAT_STRING_CHAR THEN <<c>> \o StripFrom(src, i + 1, "fstring")
                ELSE IF c = WYSIWYG_STRING_CHAR THEN <<c>> \o StripFrom(src, i + 1, "wstring")
                ELSE <<c>> \o StripFrom(src, i + 1, "code")
           [] mode = "comment" ->
                StripFrom(src, i + 1, IF c = NEWLINE_CHAR THEN "code" ELSE "comment")
           [] mode = "fstring" ->
                <<c>> \o StripFrom(src, i + 1,
                            IF c = FORMAT_STRING_CHAR THEN "code"
                            ELSE IF c = FORMAT_STRING_ESCAPE_CHAR THEN "escape"
                            ELSE "fstring")
           [] mode = "escape" -> <<c>> \o StripFrom(src, i + 1, "fstring")
           [] mode = "wstring" ->
                <<c>> \o StripFrom(src, i + 1,
                            IF c = WYSIWYG_STRING_CHAR THEN "code" ELSE "wstring")

Stripped(src) == StripFrom(src, 1, "code")

\* a newline token that stands for a comment
IsCommentToken(t) == t.type = "newline" /\ t.data # <<>> /\ t.data[1] = COMMENT_CHAR

TokenText(src, toks) ==
    Flatten([i \in 1..Len(toks) |->
                IF IsCommentToken(toks[i]) THEN <<>>
                ELSE Slice(src, toks[i].start, toks[i].end)])

RangesIncrease(src, toks) ==
    \A i \in 1..Len(toks) :
        /\ 0 <= toks[i].start
        /\ toks[i].start < toks[i].end
        /\ toks[i].end <= Len(src)
        /\ i > 1 => toks[i - 1].end <= toks[i].start

\* C1: on every input that lexes to the end of input without an error the
\* token ranges are strictly increasing and non-overlapping, and the token
\* texts in order (comments skipped) are the input without blanks and
\* comments: no other character is dropped or duplicated.
C1_RoundTrip ==
    lexState = "eoi" =>
        /\ RangesIncrease(source, tokens)
        /\ TokenText(source, tokens) = Stripped(source)

\* the same, for inputs in which every string literal is closed
RECURSIVE OpenAtEnd(_, _, _)
OpenAtEnd(src, i, mode) ==
    IF i > Len(src) THEN mode \in {"fstring", "escape", "wstring"}
    ELSE LET c == src[i] IN
         OpenAtEnd(src, i + 1,
            CASE mode = "code" ->
                    (IF c = COMMENT_CHAR THEN "comment"
                     ELSE IF c = FORMAT_STRING_CHAR THEN "fstring"
                     ELSE IF c = WYSIWYG_STRING_CHAR THEN "wstring" ELSE "code")
              [] mode = "comment" -> (IF c = NEWLINE_CHAR THEN "code" ELSE "comment")
              [] mode = "fstring" ->
                    (IF c = FORMAT_STRING_CHAR THEN "code"
                     ELSE IF c = FORMAT_STRING_ESCAPE_CHAR THEN "escape" ELSE "fstring")
              [] mode = "escape" -> "fstring"
              [] mode = "wstring" -> (IF c = WYSIWYG_STRING_CHAR THEN "code" ELSE "wstring"))

C1_RoundTripClosed ==
    (lexState = "eoi" /\ ~OpenAtEnd(source, 1, "code")) =>
        /\ RangesIncrease(source, tokens)
        /\ TokenText(source, tokens) = Stripped(source)

\* the place of the first character at or after place i that is not a blank
RECURSIVE SkipBlank(_, _)
SkipBlank(src, i) ==
    IF i <= Len(src) /\ src[i] \in WHITESPACE THEN SkipBlank(src, i + 1) ELSE i

\* the place after the longest run of characters of S that starts at place i
RECURSIVE RunEnd(_, _, _)
RunEnd(src, i, S) ==
    IF i <= Len(src) /\ src[i] \in S THEN RunEnd(src, i + 1, S) ELSE i

\* the lexeme of digits and underscores the next lex() call starts with, or
\* <<>> if it does not start with a digit
DigitLexeme(src, pos) ==
    LET i == SkipBlank(src, pos)
    IN IF i <= Len(src) /\ src[i] \in DIGIT_CHARACTERS
       THEN SubSeq(src, i, RunEnd(src, i, DIGIT_CHARACTERS \cup {"_"}) - 1)
       ELSE <<>>

UnderscoresBetweenDigits(w) ==
    \A j \in 1..Len(w) :
        w[j] = "_" => /\ 1 < j /\ j < Len(w)
                      /\ w[j - 1] \in DIGIT_CHARACTERS
                      /\ w[j + 1] \in DIGIT_CHARACTERS

\* C13: a lex() call that starts at a lexeme of digits and underscores
\* returns it as one integer token if every underscore of it stands between
\* two digits, and otherwise raises the unexpected-character error and
\* returns no token.
C13_IntegerUnderscores ==
    [][(lexState = "run" /\ DigitLexeme(source, position) # <<>>) =>
        LET w == DigitLexeme(source, position)
            i == SkipBlank(source, position)
        IN IF UnderscoresBetweenDigits(w)
           THEN /\ lexState' = "run"
                /\ tokens' = Append(tokens, [type |-> "integer", start |-> i - 1,
                                             end |-> i - 1 + Len(w), data |-> w])
           ELSE /\ lexState' = "error"
                /\ tokens' = tokens]_vars

\* the input 1_a: lex() has raised and has returned no token
C13_Witness == source = <<"1", "_", "a">> /\ lexState = "error" /\ tokens = <<>>

\* the lexeme of letters, digits and underscores the next lex() call starts
\* with, or <<>> if it does not start with a letter or an underscore
WordLexeme(src, pos) ==
    LET i == SkipBlank(src, pos)
    IN IF i <= Len(src) /\ src[i] \in WORD_CHARACTERS
       THEN SubSeq(src, i, RunEnd(src, i, WORD_CHARACTERS_AFTER) - 1)
       ELSE <<>>

\* the kind of the keyword spelled w, or identifier
WordKind(w) ==
    IF \E i \in 1..Len(DIRECT_MAP) : DIRECT_MAP[i][1] = w
    THEN DIRECT_MAP[CHOOSE i \in 1..Len(DIRECT_MAP) : DIRECT_MAP[i][1] = w][2]
    ELSE "identifier"

\* C19: a lex() call that starts at a lexeme of letters, digits and
\* underscores returns the whole lexeme as one token, of the keyword's kind
\* if the lexeme is exactly the spelling of a keyword and of the kind
\* identifier otherwise.
C19_KeywordOrIdentifier ==
    [][(lexState = "run" /\ WordLexeme(source, position) # <<>>) =>
        LET w == WordLexeme(source, position)
            i == SkipBlank(source, position)
        IN /\ lexState' = "run"
           /\ tokens' = Append(tokens, [type |-> WordKind(w), start |-> i - 1,
                                        end |-> i - 1 + Len(w), data |-> w])]_vars

\* the input as: lex() has returned it as the keyword
C19_Witness ==
    /\ source = <<"a", "s">>
    /\ Len(tokens) = 1
    /\ tokens[1].type = "as_kwd"

\* the input ass: lex() has returned it as an identifier
C19_ExtensionReached ==
    /\ source = <<"a", "s", "s">>
    /\ Len(tokens) = 1
    /\ tokens[1].type = "identifier"

\* where a lex() call stops: the live nodes none of which accepts the
\* character cur.  nodes is <<>> if the call does not stop so (the stream
\* ends while every live node still accepts).
RECURSIVE DeadEnd(_, _, _, _)
DeadEnd(src, pos, cur, nodes) ==
    IF EvaluateAll(nodes, cur) = <<>> THEN [nodes |-> nodes, cur |-> cur]
    ELSE IF cur = "" THEN [nodes |-> <<>>, cur |-> ""]
    ELSE DeadEnd(src, pos + 1, ReadAt(src, pos), EvaluateAll(nodes, cur))

NoneTerminal(nodes) == \A j \in 1..Len(nodes) : TokenType(nodes[j]) = ""

\* C20: when a lex() call stops at a character no live node accepts and no
\* live node gives a token, it returns None (end of input) if the stream
\* is at its end, and raises the unexpected-character error otherwise.
C20_EndOfInputOrError ==
    [][LET d == DeadEnd(source, position, current, <<TREE>>)
       IN (lexState = "run" /\ d.nodes # <<>> /\ NoneTerminal(d.nodes))
            => /\ tokens' = tokens
               /\ lexState' = IF d.cur = "" THEN "eoi" ELSE "error"]_vars

\* C20, amended: it returns None only if the stream is at its end and the
\* root is among the live nodes (nothing of a token has been read), and
\* raises the unexpected-character error otherwise: a stream that ends
\* inside the spelling of an operator (a lone & at the end) raises.
C20_EndOfInputAtRootOnly ==
    [][LET d == DeadEnd(source, position, current, <<TREE>>)
       IN (lexState = "run" /\ d.nodes # <<>> /\ NoneTerminal(d.nodes))
            => /\ tokens' = tokens
               /\ lexState' = IF d.cur = "" /\ \E j \in 1..Len(d.nodes) : d.nodes[j] = TREE
                               THEN "eoi" ELSE "error"]_vars

\* the input &: lex() has raised at the end of the stream
C20_Witness == source = <<"&">> /\ lexState = "error" /\ current = ""

-----------------------------------------------------------------------------
(***************************************************************************)
(* Properties of the verifier                                              *)
(***************************************************************************)

\* the scope of the innermost with State.scoped block that has not been
\* left, and the soft scopes entered inside it and not left, oldest first
RECURSIVE EnteredScope(_)
EnteredScope(stk) ==
    IF stk = <<>> THEN None
    ELSE IF Head(stk).op = "scoped" THEN Head(stk).scope
    ELSE EnteredScope(Tail(stk))

RECURSIVE EnteredSoftScopes(_)
EnteredSoftScopes(stk) ==
    IF stk = <<>> \/ Head(stk).op = "scoped" THEN <<>>
    ELSE IF Head(stk).op = "softScoped"
    THEN Append(EnteredSoftScopes(Tail(stk)), Head(stk).scope)
    ELSE EnteredSoftScopes(Tail(stk))

\* C2: while verification runs, State.scope is the scope of the innermost
\* scoped block that is still open and State.soft_scope_stack holds the soft
\* scopes open inside it: every block that was left, normally or by an error
\* that Method.resolveCall caught, has put back what it found.
C2_ScopesRestored ==
    outcome = "run" =>
        /\ scope = EnteredScope(stack)
        /\ softStack = EnteredSoftScopes(stack)

\* the rule holds as long as nothing was raised
C2_ScopesRestoredUntilRaise ==
    (outcome = "run" /\ raised = <<>>) =>
        /\ scope = EnteredScope(stack)
        /\ softStack = EnteredSoftScopes(stack)

\* Method.resolveCall has tried every overload
Deciding ==
    /\ Running("overloads")
    /\ Head(stack).pc = "try"
    /\ Head(stack).i > Len(heap[heap[Head(stack).n].overload_context].nodes)

OverloadReturns(fn) == stack' = Tail(stack) /\ retval' = fn
OverloadRaises(message) == stack' # Tail(stack) /\ raised' = <<"TypeError", message>>

\* C3: when Method.resolveCall has tried its overloads, it raises TypeError
\* if none matched, returns the match if there is one, and with several
\* matches raises the ambiguity error if the scope the call stands in is
\* not dependent and returns the first match if it is.
C3_OverloadRule ==
    [][Deciding =>
        LET matches == Head(stack).matches
            site == EnteredScope(Tail(stack))
        IN /\ Len(matches) = 0 => OverloadRaises("is not compatible with")
           /\ Len(matches) = 1 => OverloadReturns(matches[1])
           /\ (Len(matches) > 1 /\ ~Dependent(heap, site))
                  => OverloadRaises("Ambiguous overloads")
           /\ (Len(matches) > 1 /\ Dependent(heap, site))
                  => OverloadReturns(matches[1])]_vars

\* C4: when Function.resolveCall of a dependent function is about to return
\* the verified copy, the copy is a new function whose argument types are
\* the types of the call and whose return type, if it returns a value, is
\* one of the concrete types of the call; the dependent types of the
\* original have no target.
C4_Specialization ==
    Running("template") =>
        LET f == Head(stack)
            type == heap[heap[f.fn].type]
            given == heap[f.call].arguments
        IN /\ f.fn # f.n
           /\ type.arguments = given
           /\ type.return_type # None =>
                \E i \in 1..Len(given) :
                    ResolveValue(heap, type.return_type) = ResolveValue(heap, given[i])
           /\ \A i \in 1..Len(heap[f.n].arguments) :
                LET t == heap[heap[f.n].arguments[i]].type
                IN heap[t].k = "DependentType" => heap[t].target = None

\* a body, as written, returns on every path
RECURSIVE DefinitelyReturns(_)
DefinitelyReturns(body) ==
    \E i \in 1..Len(body) :
        \/ body[i].t = "Return"
        \/ /\ body[i].t = "Branch"
           /\ DefinitelyReturns(body[i].a)
           /\ DefinitelyReturns(body[i].b)

\* a body, as written, holds a Return at any depth
RECURSIVE ContainsReturn(_)
ContainsReturn(body) ==
    \E i \in 1..Len(body) :
        \/ body[i].t = "Return"
        \/ body[i].t = "Branch" /\ ContainsReturn(body[i].a \o body[i].b)
        \/ body[i].t = "Loop" /\ ContainsReturn(body[i].body)

\* C5: a function with a declared return type whose body does not return on
\* every path does not verify: verification ends with SemanticError
\* "All code paths must return".
C5_AllPathsMustReturn ==
    (/\ program.kind = "def"
     /\ program.ret = "Int"
     /\ ~DefinitelyReturns(program.body)
     /\ outcome # "run")
        => /\ outcome = "SemanticError"
           /\ raised = <<"SemanticError", "All code paths must return">>

\* the only Return of f() -> Int sits in one arm of a Branch, and
\* verification has ended with the error
C5_Witness ==
    /\ program.kind = "def"
    /\ program.ret = "Int"
    /\ program.body = <<BranchT(<<ReturnOne>>, <<>>)>>
    /\ outcome = "SemanticError"

\* util.checkCompatibility: one of the two types accepts the other
Compatible(h, type1, type2) ==
    CheckCompatibility(h, type1, type2).ok \/ CheckCompatibility(h, type2, type1).ok

\* C14: when Return.verify finds that the type of the value is not compatible
\* with the return type the function has (declared, or inferred from an
\* earlier Return), verification ends with TypeError and the return type of
\* the function stays as it was.
C14_ReturnTypeMismatch ==
    [][(/\ Running("returned")
        /\ IsFunction(heap, scope)
        /\ heap[heap[scope].type].return_type # None
        /\ ~Compatible(heap, heap[heap[scope].type].return_type,
                       ResolveType(heap, heap[Head(stack).n].value)))
        => /\ outcome' = "TypeError"
           /\ heap'[heap[scope].type].return_type = heap[heap[scope].type].return_type]_vars

\* a body, as written, ends in a Branch both arms of which return on every
\* path
EndsInReturningBranch(body) ==
    /\ body # <<>>
    /\ body[Len(body)].t = "Branch"
    /\ DefinitelyReturns(body[Len(body)].a)
    /\ DefinitelyReturns(body[Len(body)].b)

\* C15: a function with a declared return type whose body ends in a Branch
\* both arms of which return is not refused with "All code paths must
\* return".
C15_ReturningBranchCovers ==
    (/\ program.kind = "def"
     /\ program.ret = "Int"
     /\ EndsInReturningBranch(program.body))
        => raised # <<"SemanticError", "All code paths must return">>

\* the instructions ids hold the object b at any depth
RECURSIVE Encloses(_, _, _)
Encloses(h, ids, b) ==
    \E i \in 1..Len(ids) :
        \/ ids[i] = b
        \/ h[ids[i]].k = "Loop" /\ Encloses(h, h[ids[i]].instructions, b)
        \/ /\ h[ids[i]].k = "Branch"
           /\ Encloses(h, h[ids[i]].true_instructions \o h[ids[i]].false_instructions, b)

\* C8: a Break is bound only to a Loop that encloses it (and so belongs to
\* the Function the Break stands in).
C8_BreakInsideItsLoop ==
    \A b \in 1..Len(heap) :
        (heap[b].k = "Break" /\ heap[b].loop # None)
            => Encloses(heap, heap[heap[b].loop].instructions, b)

\* C9: a class whose constructor holds a Return at any depth does not
\* verify: verification ends with SemanticError.
C9_ConstructorReturnRejected ==
    (/\ program.kind = "new"
     /\ ContainsReturn(program.body)
     /\ outcome # "run")
        => outcome = "SemanticError"

\* C12: a second module.verify() on a verified Module changes no IR object
\* and nothing of the State, and raises no error.
C12_VerifyAgainNoOp ==
    snapshot # <<>> =>
        /\ <<heap, builtins, scope, softStack, raised>> = snapshot
        /\ outcome \in {"run", "ok"}

\* the second call has returned
C12_Witness == snapshot # <<>> /\ outcome = "ok" /\ stack = <<>>

\* the instructions ids hold the object b with Branches only, and no Loop,
\* in between
RECURSIVE HoldsInBranches(_, _, _)
HoldsInBranches(h, ids, b) ==
    \E i \in 1..Len(ids) :
        \/ ids[i] = b
        \/ /\ h[ids[i]].k = "Branch"
           /\ HoldsInBranches(h, h[ids[i]].true_instructions \o h[ids[i]].false_instructions, b)

\* C16: the Loop a verified Break is bound to is the innermost Loop that
\* encloses the Break: the Break stands in the instructions of that Loop
\* with no other Loop in between.
C16_BreakBindsInnermost ==
    \A b \in 1..Len(heap) :
        (heap[b].k = "Break" /\ heap[b].loop # None)
            => HoldsInBranches(heap, heap[heap[b].loop].instructions, b)

\* the same for the one program def f() loop loop break end end end
C16_NestedLoops ==
    (program.kind = "def" /\ program.body = <<LoopT(<<LoopT(<<BreakT>>)>>)>>)
        => C16_BreakBindsInnermost

\* the names objects of the IR are declared under
DeclaredNames(h) ==
    {h[n].name : n \in {j \in 1..Len(h) : "name" \in DOMAIN h[j]}}

\* C18: the specialization Function.resolveCall makes of a dependent
\* function is bound to the context the original is bound to, and every
\* name that resolves from the original through that context resolves to
\* the same declaration from the specialization.
C18_CloneResolvesAsOriginal ==
    \A i \in 1..Len(stack) :
        stack[i].op = "template" =>
            LET fn == stack[i].fn
                original == stack[i].n
            IN /\ BoundContext(heap, fn) = BoundContext(heap, original)
               /\ \A name \in DeclaredNames(heap) :
                    LET found == resolveReference(heap, builtins, original, name, None)
                    IN (/\ found.error = ""
                        /\ ~InContext(heap, LocalContext(heap, original), name))
                        => resolveReference(heap, builtins, fn, name, None) = found

\* the same for the names of the builtins only
C18_CloneResolvesBuiltins ==
    \A i \in 1..Len(stack) :
        stack[i].op = "template" =>
            \A name \in {"Int", "String"} :
                resolveReference(heap, builtins, stack[i].fn, name, None)
                    = resolveReference(heap, builtins, stack[i].n, name, None)

\* def g(x) h() end with g(1) in main: the verification of the program
\* does not end with an error
C18_ReferringCloneVerifies ==
    (program.kind = "refer" /\ program.called) => outcome \in {"run", "ok"}

-----------------------------------------------------------------------------
(***************************************************************************)
(* Properties of resolveReference                                          *)
(***************************************************************************)

\* the scopes from s up to the builtins
RECURSIVE ScopeChain(_, _, _)
ScopeChain(h, b, s) ==
    IF s = b THEN <<s>> ELSE <<s>> \o ScopeChain(h, b, WalkUp(h, b, s))

\* the scopes that declare the name with an object other than the excluded
\* one, among the scopes whose context the chain reaches (a function that
\* is a child of a module reaches the context of the module)
Declaring(h, chain, name, excluded) ==
    {h[LocalContext(h, chain[i])].scope : i \in
        {i \in 1..Len(chain) :
            /\ LocalContext(h, chain[i]) # None
            /\ InContext(h, LocalContext(h, chain[i]), name)
            /\ GetChild(h, LocalContext(h, chain[i]), name) # excluded}}

Declared(h, s, name) == GetChild(h, LocalContext(h, s), name)

\* C6: resolveReference returns the declaration when exactly one scope of
\* the chain declares the name, raises MissingReferenceError when none does
\* and AmbiguityError when several do.
C6_ExactlyOneDeclaration ==
    resState = "done" =>
        LET chain == ScopeChain(heap, builtins, scope)
            declaring == Declaring(heap, chain, rReference, rExclude)
        IN /\ Cardinality(declaring) = 0 => rResult.error = "MissingReferenceError"
           /\ Cardinality(declaring) > 1 => rResult.error = "AmbiguityError"
           /\ Cardinality(declaring) = 1 =>
                /\ rResult.error = ""
                /\ \E d \in declaring : rResult.value = Declared(heap, d, rReference)

\* the rule holds for every scope other than a function that is a child of
\* the builtins
C6_OutsideTheBuiltins ==
    (resState = "done" /\ ~(heap[scope].k = "Function" /\ heap[scope].static
                              /\ heap[scope].bound_context = heap[builtins].context))
        => LET chain == ScopeChain(heap, builtins, scope)
               declaring == Declaring(heap, chain, rReference, rExclude)
           IN /\ Cardinality(declaring) = 0 => rResult.error = "MissingReferenceError"
              /\ Cardinality(declaring) > 1 => rResult.error = "AmbiguityError"
              /\ Cardinality(declaring) = 1 =>
                   /\ rResult.error = ""
                   /\ \E d \in declaring : rResult.value = Declared(heap, d, rReference)

\* C7: when the walk has ended, no context was looked at twice, and the
\* builtins were looked at once, in the last turn.
C7_NoContextTwice ==
    resState = "done" =>
        /\ \A i, j \in 1..Len(rVisited) :
              (i < j /\ rVisited[i][2] # None) => rVisited[i][2] # rVisited[j][2]
        /\ rVisited[Len(rVisited)][1] = builtins
        /\ \A i \in 1..Len(rVisited) - 1 : rVisited[i][1] # builtins

\* the walk ends: it never takes more turns than there are objects
C7_WalkEnds == Len(rVisited) <= Len(heap)

-----------------------------------------------------------------------------
(***************************************************************************)
(* Properties of parseMethodBody                                           *)
(***************************************************************************)

\* the number of arguments with a default value, and whether they are the
\* last ones
DefaultCount == Cardinality({i \in 1..Len(pDefaultValues) : pDefaultValues[i] # None})
TrailingDefaults ==
    \A i \in 1..Len(pDefaultValues) :
        (pDefaultValues[i] # None) <=> (i > Len(pDefaultValues) - DefaultCount)

\* C10: with n arguments of which the last k have a default value, the
\* method gets k + 1 overloads of n, n - 1, ..., n - k arguments, and the
\* body of every overload but the first is one Call of the overload before
\* it with the overload's own arguments and then the default value of the
\* next argument.
C10_DefaultOverloads ==
    TrailingDefaults =>
        /\ parseState # "SyntaxError"
        /\ parseState = "done" =>
            LET made == heap[heap[pMethod].overload_context].nodes
                n == Len(pArguments)
            IN /\ Len(made) = DefaultCount + 1
               /\ \A j \in 0..DefaultCount :
                    LET f == heap[made[j + 1]]
                    IN /\ Len(f.arguments) = n - j
                       /\ j > 0 =>
                            /\ Len(f.instructions) = 1
                            /\ heap[f.instructions[1]].k = "Call"
                            /\ heap[f.instructions[1]].called = made[j]
                            /\ heap[f.instructions[1]].values
                                 = f.arguments \o <<pDefaultValues[n - j + 1]>>

\* three arguments, the last two with a default value, parsed to the end
C10_Witness ==
    /\ parseState = "done"
    /\ Len(pArguments) = 3
    /\ DefaultCount = 2
    /\ TrailingDefaults

-----------------------------------------------------------------------------
(***************************************************************************)
(* Properties of FunctionType.checkCompatibility                           *)
(***************************************************************************)

\* the arguments of two function types are compatible at every place
ArgumentsCompatible(h, self, other) ==
    /\ Len(h[self].arguments) = Len(h[other].arguments)
    /\ \A i \in 1..Len(h[self].arguments) :
        Compatible(h, h[self].arguments[i], h[other].arguments[i])

\* C17: two function types are compatible exactly when they take the same
\* number of arguments, the arguments are compatible at every place, and,
\* if both have a return type, the return types are compatible.
C17_FunctionTypeCompatibility ==
    compatible # <<>> =>
        LET self == compared[1]
            other == compared[2]
        IN compatible[1] =
            (/\ ArgumentsCompatible(heap, self, other)
             /\ (heap[self].return_type # None /\ heap[other].return_type # None)
                    => Compatible(heap, heap[self].return_type, heap[other].return_type))

\* the same for function types one of which has no return type
C17_WithoutReturnType ==
    (/\ compatible # <<>>
     /\ heap[compared[1]].return_type = None \/ heap[compared[2]].return_type = None)
        => C17_FunctionTypeCompatibility

\* the same for function types whose arguments are all classes
C17_ClassArguments ==
    (/\ compatible # <<>>
     /\ \A i \in 1..2 : \A j \in 1..Len(heap[compared[i]].arguments) :
            heap[heap[compared[i]].arguments[j]].k = "Class")
        => compatible[1] = ArgumentsCompatible(heap, compared[1], compared[2])

-----------------------------------------------------------------------------
(***************************************************************************)
(* Properties of the parser's expressions                                  *)
(***************************************************************************)

\* the spellings of the operators of the three tiers
Comparison == {<<"=", "=">>, <<"!", "=">>, <<"<">>, <<"<", "=">>, <<">">>, <<">", "=">>}
Additive == {<<"+">>, <<"-">>}
Multiplicative == {<<"*">>, <<"/">>, <<"/", "/">>, <<"%">>}

SameTier(operations) ==
    \E tier \in {Comparison, Additive, Multiplicative} :
        \A i \in 1..Len(operations) : operations[i].data \in tier

\* v0 op1 v1 ... opn vn nested to the left
RECURSIVE LeftNested(_, _, _)
LeftNested(values, operations, n) ==
    IF n = 0 THEN values[1]
    ELSE [t |-> "Call",
          called |-> [t |-> "Attribute", value |-> LeftNested(values, operations, n - 1),
                      reference |-> operations[n].data],
          values |-> <<values[n + 1]>>]

\* C21: for operators of one tier parseBinaryOperation returns the tree
\* nested to the left: what the first i operators give is the receiver of
\* operator i + 1, and each application is Call(Attribute(lhs, op), [rhs]).
C21_LeftAssociative ==
    (pValue # <<>> /\ callState = "done" /\ pTokens = <<>> /\ SameTier(pOperations))
        => pValue[1] = LeftNested(pValues, pOperations, Len(pOperations))

\* a - b + c - d has been parsed
C21_Witness ==
    /\ pOperations = <<Token("subtraction"), Token("addition"), Token("subtraction")>>
    /\ callState = "done"
    /\ pValue # <<>>

\* how tight an expression binds: 1 for an application of a comparison, 2
\* of an additive, 3 of a multiplicative operator, 4 for an operand
Binding(node) ==
    IF node.t # "Call" THEN 4
    ELSE IF node.called.reference \in Comparison THEN 1
    ELSE IF node.called.reference \in Additive THEN 2
    ELSE 3

\* no application of the tree has an operand that binds less tightly
RECURSIVE Climbs(_)
Climbs(node) ==
    node.t = "Call" =>
        /\ Binding(node.called.value) >= Binding(node)
        /\ \A i \in 1..Len(node.values) : Binding(node.values[i]) >= Binding(node)
        /\ Climbs(node.called.value)
        /\ \A i \in 1..Len(node.values) : Climbs(node.values[i])

\* C22: in the tree parseBinaryOperation builds no additive or comparison
\* application is an operand of a multiplicative application, and no
\* comparison application is an operand of an additive application.
C22_PrecedenceClimbing ==
    (pValue # <<>> /\ callState = "done" /\ pTokens = <<>>) => Climbs(pValue[1])

\* the tokens at the odd places are identifiers and the ones at the even
\* places operators of the multiplicative tier: a, a * b, a % b * a, ...
Products(toks) ==
    /\ Len(toks) % 2 = 1
    /\ \A i \in 1..Len(toks) :
        IF i % 2 = 1 THEN toks[i].type = "identifier" ELSE toks[i].data \in Multiplicative

\* C23: % is a binary operator of the multiplicative tier: parseValue takes
\* a stream of identifiers with *, /, // and % between them as one
\* expression, the left-nested tree of Call(Attribute(lhs, op), [rhs]), so
\* a % b gives Call(Attribute(a, "%"), [b]).
C23_ModuloIsMultiplicative ==
    (callState \in {"done", "SyntaxError"} /\ pInput # <<>> /\ Products(pInput))
        => /\ callState = "done"
           /\ pTokens = <<>>
           /\ pValue = <<LeftNested([i \in 1..(Len(pInput) + 1) \div 2 |->
                                        Ref(pInput[2 * i - 1].data)],
                                    [i \in 1..Len(pInput) \div 2 |-> pInput[2 * i]],
                                    Len(pInput) \div 2)>>

\* the same for the streams without %
C23_WithoutModulo ==
    (\A i \in 1..Len(pInput) : pInput[i].type # "mod") => C23_ModuloIsMultiplicative

\* a + b * c == d has been parsed as ((a + (b * c)) == d)
C22_Witness ==
    /\ pOperations = <<Token("addition"), Token("multiplication"), Token("equality")>>
    /\ pValue = <<OperationCall(
                     OperationCall(Operand(1), Token("addition"),
                                   <<OperationCall(Operand(2), Token("multiplication"),
                                                   <<Operand(3)>>)>>),
                     Token("equality"), <<Operand(4)>>)>>

-----------------------------------------------------------------------------
(***************************************************************************)
(* Properties of Method                                                    *)
(***************************************************************************)

\* the keys of the overload context of m are "0" .. "n-1" in this order and
\* its values are the overloads m was given, in the order it was given them
KeysInOrder(m) ==
    LET ctx == heap[heap[m].overload_context]
    IN /\ Len(ctx.names) = Len(added[m])
       /\ \A j \in 1..Len(ctx.names) : ctx.names[j] = ToString(j - 1)
       /\ ctx.nodes = added[m]

\* the name of every overload of m is its key
NamedByKey(m) ==
    LET ctx == heap[heap[m].overload_context]
    IN \A j \in 1..Len(ctx.names) : heap[ctx.nodes[j]].name = ctx.names[j]

\* C11: after any calls of the constructor, addOverload and assimilate, the
\* keys of the overload context of every Method are "0" .. "n-1" for the n
\* overloads it was given, every overload has its key as its name, and the
\* overloads stand in the order in which they were given.
C11_OverloadNumbering ==
    outcome = "method" =>
        \A m \in Methods(heap) : KeysInOrder(m) /\ NamedByKey(m)

\* the keys and the order are as claimed for every Method
C11_KeysInOrder ==
    outcome = "method" => \A m \in Methods(heap) : KeysInOrder(m)

\* a Method none of whose overloads was handed on to a Method by assimilate
\* names its overloads by their keys
C11_NamedWhereBound ==
    outcome = "method" =>
        \A m \in Methods(heap) :
            (\A j \in 1..Len(OverloadsOf(heap, m)) :
                heap[OverloadsOf(heap, m)[j]].bound_context = heap[m].overload_context
                /\ \A n \in Methods(heap) \ {m} :
                      \A i \in 1..Len(OverloadsOf(heap, n)) :
                          OverloadsOf(heap, n)[i] # OverloadsOf(heap, m)[j])
                /\ Distinct(OverloadsOf(heap, m))
                => NamedByKey(m)

(***************************************************************************)
(* Properties of the declarations of a scope                               *)
(***************************************************************************)

\* the children the declarations handed so far should leave: two Methods of
\* one name are one Method with the overloads of the earlier followed by
\* those of the later, in every other case the later stands for the earlier
RECURSIVE Merged(_, _)
Merged(declared, n) ==
    IF n = 0 THEN <<>>
    ELSE Let(Merged(declared, n - 1), LAMBDA before :
         Let(declared[n], LAMBDA d :
             IF HasChild(before, heap[d.node].name)
             THEN Let(ChildAt(before, heap[d.node].name), LAMBDA i :
                      IF heap[before[i].node].k = "Method" /\ heap[d.node].k = "Method"
                      THEN [before EXCEPT ![i].overloads = @ \o d.overloads]
                      ELSE [before EXCEPT ![i].node = d.node,
                                          ![i].overloads = d.overloads])
             ELSE Append(before, [name |-> heap[d.node].name, node |-> d.node,
                                  overloads |-> d.overloads])))

ChildrenAre(expected) ==
    /\ Len(pChildren) = Len(expected)
    /\ \A i \in 1..Len(expected) :
        /\ pChildren[i].name = expected[i].name
        /\ pChildren[i].node = expected[i].node
        /\ heap[expected[i].node].k = "Method"
            => OverloadsOf(heap, pChildren[i].node) = expected[i].overloads

\* C24: of the declarations of one name handed to addChild, two Methods
\* leave one Method whose overloads are those of the earlier followed by
\* those of the later; in every other case, an earlier declaration that is
\* not a Method followed by a Method included, the later replaces the earlier
\* and no error is raised.
C24_SameNameDeclarations ==
    callState \in {"addChild", "AttributeError"}
        => (callState = "addChild" /\ ChildrenAre(Merged(pDeclared, Len(pDeclared))))

\* as long as no error is raised the children are those of C24
C24_UnlessRaised ==
    callState = "addChild" => ChildrenAre(Merged(pDeclared, Len(pDeclared)))

\* the error is raised for a Method that follows a declaration of its name
\* that is not a Method, and for nothing else
C24_MethodAfterOther ==
    callState = "AttributeError"
        <=> /\ pDeclared # <<>>
            /\ Let(pDeclared[Len(pDeclared)].node, LAMBDA d :
                   /\ heap[d].k = "Method"
                   /\ HasChild(pChildren, heap[d].name)
                   /\ heap[pChildren[ChildAt(pChildren, heap[d].name)].node].k # "Method")

(***************************************************************************)
(* Properties of parseLine                                                 *)
(***************************************************************************)

\* an assignment token stands among the first n tokens of the line
EqualWithin(n) ==
    \E i \in 1..n : i <= Len(pInput) /\ pInput[i].type = "equal"

LineParsed == callState # "parseLine" /\ pInput # <<>>

\* C25: a line that starts with an identifier or const is handed to
\* parseAssignment if an assignment token stands among its first 6 tokens,
\* and to parseValue otherwise; with the assignment token as the 6th token
\* (name : a . b = value) it is parsed as an Assignment.
C25_AssignmentWithinSix ==
    LineParsed =>
        /\ pValue[1].called = (IF EqualWithin(6) THEN "parseAssignment" ELSE "parseValue")
        /\ (pInput = <<Identifier("a"), Token("typeof"), Identifier("a"), Token("dot"),
                       Identifier("a"), EqualToken, Identifier("a")>>
                => callState = "done" /\ pValue[1].value.t = "Assignment")

\* the six calls of lookAhead reach the first 5 tokens of the line and no
\* other, whatever Parser.tokens held before
C25_AssignmentWithinFive ==
    LineParsed =>
        pValue[1].called = (IF EqualWithin(5) THEN "parseAssignment" ELSE "parseValue")

\* name : a . b = value is read as the expression name, and the rest of the
\* line is left to the next call
C25_SixthTokenNotSeen ==
    (LineParsed /\ pInput = <<Identifier("a"), Token("typeof"), Identifier("a"), Token("dot"),
                              Identifier("a"), EqualToken, Identifier("a")>>)
        => /\ callState = "done"
           /\ pValue[1] = [called |-> "parseValue", value |-> Ref(<<"a">>)]
           /\ Len(pTokens) = 6

(***************************************************************************)
(* Properties of DependentType.checkCompatibility                          *)
(***************************************************************************)

StartsWith(longer, shorter) ==
    Len(shorter) <= Len(longer) /\ \A i \in 1..Len(shorter) : longer[i] = shorter[i]

\* C26: over the calls of checkCompatibility on one DependentType the types
\* it has observed only grow and none is held twice; without a target every
\* call answers True and its argument is among the observed types after it;
\* with a target a call leaves the observed types as they were and answers
\* what the target answers.
C26_ObservedTypes ==
    [][/\ StartsWith(heap'[CalledType(heap)].compatibles, heap[CalledType(heap)].compatibles)
       /\ Distinct(heap'[CalledType(heap)].compatibles)
       /\ compared' # <<>> =>
            IF heap[CalledType(heap)].target = None
            THEN /\ compatible' = <<TRUE>>
                 /\ \E i \in 1..Len(heap'[CalledType(heap)].compatibles) :
                        heap'[CalledType(heap)].compatibles[i] = compared'[2]
            ELSE /\ heap'[CalledType(heap)].compatibles = heap[CalledType(heap)].compatibles
                 /\ compatible'
                        = <<CheckCompatibility(heap, heap[CalledType(heap)].target,
                                               compared'[2]).ok>>]_vars

\* a DependentType that has observed several types, has then been given a
\* target, and has answered False for a type it had observed before
C26_Witness ==
    /\ compared # <<>>
    /\ heap[compared[1]].k = "DependentType"
    /\ heap[compared[1]].target # None
    /\ Len(heap[compared[1]].compatibles) >= 2
    /\ compatible = <<FALSE>>
    /\ \E i \in 1..Len(heap[compared[1]].compatibles) :
            heap[compared[1]].compatibles[i] = compared[2]

(***************************************************************************)
(* Properties of Assignment.verify                                         *)
(***************************************************************************)

Contexts(h) == {c \in 1..Len(h) : h[c].k = "Context"}

\* the Assignment whose verify() takes the next step, its name, and what
\* the name resolves to from the current scope
AssignmentAtHand == Head(stack).n
AssignedName == heap[heap[AssignmentAtHand].variable].name
Existing == resolveReference(heap, builtins, scope, AssignedName, None)

\* no context has a child added, taken or put in the place of another
ContextsKept(except) ==
    \A c \in Contexts(heap) \ except :
        heap'[c].names = heap[c].names /\ heap'[c].nodes = heap[c].nodes

\* C27: verifying an Assignment to a name either rebinds or declares: if the
\* name resolves from the current scope, the variable of the Assignment
\* becomes the declaration found and no context gets a child; if it does
\* not, the local context of the current scope gets exactly one child, of
\* that name, and no other context changes.
C27_DeclaresOrRebinds ==
    [][Verifying("Assignment") =>
        IF Existing.error = "MissingReferenceError"
        THEN /\ heap'[LocalContext(heap, scope)].names
                    = Append(heap[LocalContext(heap, scope)].names, AssignedName)
             /\ heap'[LocalContext(heap, scope)].nodes
                    = Append(heap[LocalContext(heap, scope)].nodes,
                             heap[AssignmentAtHand].variable)
             /\ heap'[AssignmentAtHand].variable = heap[AssignmentAtHand].variable
             /\ ContextsKept({LocalContext(heap, scope)})
        ELSE /\ heap'[AssignmentAtHand].variable = Existing.value
             /\ ContextsKept({})]_vars

\* what holds of the contexts: a name that resolves leaves them all as they
\* are, a name that does not adds one child to the local context
C27_ContextsOnly ==
    [][Verifying("Assignment") =>
        IF Existing.error = "MissingReferenceError"
        THEN /\ heap'[LocalContext(heap, scope)].names
                    = Append(heap[LocalContext(heap, scope)].names, AssignedName)
             /\ ContextsKept({LocalContext(heap, scope)})
        ELSE ContextsKept({})]_vars

\* a name that resolves to a Variable is rebound unless the Assignment has
\* an annotation and the Variable a type
C27_RebindsVariables ==
    [][(Verifying("Assignment") /\ Existing.error = ""
            /\ heap[Existing.value].k = "Variable"
            /\ ~(heap[heap[AssignmentAtHand].variable].type # None
                    /\ heap[Existing.value].type # None))
        => heap'[AssignmentAtHand].variable = Existing.value]_vars

\* C28: an Assignment with an annotation to a variable that is declared and
\* has a type raises TypeError exactly when the type of the annotation is
\* not compatible with the type of the variable; an annotation that repeats
\* the type of the variable is accepted.
C28_ConflictingAnnotation ==
    [][(/\ Verifying("Assignment")
        /\ Existing.error = ""
        /\ heap[Existing.value].k = "Variable"
        /\ heap[Existing.value].type # None
        /\ heap[heap[AssignmentAtHand].variable].type # None)
        => LET annotated == heap[heap[AssignmentAtHand].variable].type
               conflict == heap[annotated].reference
                                # heap[ResolveValue(heap, heap[Existing.value].type)].name
           IN (raised' = <<"TypeError", "Cannot override variable type">>
                    /\ outcome' = "TypeError") <=> conflict]_vars

\* every Assignment with an annotation to a variable that has a type raises
\* TypeError
C28_AnyAnnotationRaises ==
    [][(/\ Verifying("Assignment")
        /\ Existing.error = ""
        /\ heap[Existing.value].k = "Variable"
        /\ heap[Existing.value].type # None
        /\ heap[heap[AssignmentAtHand].variable].type # None)
        => (raised' = <<"TypeError", "Cannot override variable type">>
                /\ outcome' = "TypeError")]_vars

(***************************************************************************)
(* Properties of a second verify() after an error                          *)
(***************************************************************************)

\* the Module and the Function whose verify() the error has left: every
\* error of these programs is raised by an instruction of main
Left(h) == {MainModule(h), h[MainModule(h)].main}

\* C29: a Module or a Function stays marked verified only if its verify()
\* came to its end: after verify() has raised within the body, the node is
\* not marked, and a later verify() of it checks the body again and raises
\* again.
C29_VerifiedOnlyIfComplete ==
    /\ (outcome \notin {"run", "ok"} /\ opState = "idle")
            => \A n \in Left(heap) : ~heap[n].verified
    /\ (outcome # "run" /\ opState # "idle") => outcome = opState

\* the second verify() returns at once and leaves everything as it was
C29_SecondCallReturns ==
    (outcome # "run" /\ opState # "idle")
        => /\ outcome = "ok"
           /\ raised[1] = opState
           /\ \A n \in Left(heap) : heap[n].verified

(***************************************************************************)
(* Properties of verify() on recursive functions                           *)
(***************************************************************************)

\* how many verify() calls of the Function n are within its instruction
\* list or before its verifySelf()
InBody(stk, n) == Cardinality({j \in 1..Len(stk) : stk[j] = VerifySelfF(n)})

\* C30: verify() of a module ends when functions that are not dependent
\* call themselves or each other, and the instruction list of each such
\* Function is verified at most once: a Function that is marked verified
\* stays marked, and its instruction list is entered only by the step that
\* marks it.
C30_RecursionTerminates ==
    /\ <>(outcome # "run")
    /\ [][\A n \in Functions(heap) :
            ~heap[n].dependent =>
                /\ heap[n].verified => heap'[n].verified
                /\ InBody(stack', n) > InBody(stack, n)
                        => (~heap[n].verified /\ heap'[n].verified)]_vars

\* verify() has returned for a module where f calls g and g calls f, and
\* f, g and main are verified
C30_Witness ==
    /\ outcome = "ok"
    /\ program.kind = "recursive"
    /\ program.methods[1].overloads[1].body = <<CallT("g", <<>>)>>
    /\ program.methods[2].overloads[1].body = <<CallT("f", <<>>)>>
    /\ \A n \in Functions(heap) : heap[n].bound_context # None
            /\ heap[heap[n].bound_context].scope # builtins => heap[n].verified

\* no error is raised: every program of the family verifies
C30_NoError == outcome \in {"run", "ok"}

=============================================================================
